---- MODULE Spec2Model ----
(***************************************************************************)
(* A model of the gemini package (the Client of src/unnamed/part_002, the  *)
(* types of src/gemini/types.go lines 76-171) and of the HTTP executor it  *)
(* is given.                                                               *)
(*                                                                         *)
(* Go strings and byte slices are modelled as run-length encoded byte      *)
(* strings: a sequence of runs [c |-> character, n |-> repeat count] in    *)
(* which no two neighbouring runs have the same character.  A 10 MiB body  *)
(* is then a handful of runs, while len, slicing, concatenation, prefix    *)
(* and substring tests stay exact.                                         *)
(***************************************************************************)
EXTENDS Integers, Sequences, FiniteSets, TLC

(***************************************************************************)
(* Byte strings                                                            *)
(***************************************************************************)

Run(c, n) == [c |-> c, n |-> n]

\* a + b on Go strings.
Cat(a, b) ==
    IF a = <<>> THEN b
    ELSE IF b = <<>> THEN a
    ELSE IF a[Len(a)].c = b[1].c
         THEN SubSeq(a, 1, Len(a) - 1)
                \o <<Run(b[1].c, a[Len(a)].n + b[1].n)>>
                \o Tail(b)
         ELSE a \o b

RECURSIVE S(_)
\* The Go string literal whose characters are the tuple chars.
S(chars) ==
    IF chars = <<>> THEN <<>>
    ELSE IF Len(chars) = 1 THEN <<Run(chars[1], 1)>>
    ELSE Cat(S(SubSeq(chars, 1, Len(chars) \div 2)),
             S(SubSeq(chars, Len(chars) \div 2 + 1, Len(chars))))

\* strings.Repeat(c, n)
Repeat(c, n) == IF n <= 0 THEN <<>> ELSE <<Run(c, n)>>

RECURSIVE RangeLen(_, _, _)
\* The number of bytes in the runs lo..hi of s.
RangeLen(s, lo, hi) ==
    IF lo > hi THEN 0
    ELSE IF lo = hi THEN s[lo].n
    ELSE RangeLen(s, lo, (lo + hi) \div 2)
           + RangeLen(s, (lo + hi) \div 2 + 1, hi)

\* len(s)
BLen(s) == RangeLen(s, 1, Len(s))

RECURSIVE TakeRange(_, _, _, _)
\* The first n bytes of the runs lo..hi of s.
TakeRange(s, lo, hi, n) ==
    IF n <= 0 \/ lo > hi THEN <<>>
    ELSE IF lo = hi
        THEN <<Run(s[lo].c, IF n < s[lo].n THEN n ELSE s[lo].n)>>
    ELSE LET m == (lo + hi) \div 2
             left == RangeLen(s, lo, m)
         IN IF n <= left THEN TakeRange(s, lo, m, n)
            ELSE SubSeq(s, lo, m) \o TakeRange(s, m + 1, hi, n - left)

\* s[:n] for 0 <= n; the whole of s when n >= len(s) (the callers guard the
\* slice with len(s) > n, io.LimitReader stops at the end of the stream).
Take(s, n) == TakeRange(s, 1, Len(s), n)

RECURSIVE SkipRange(_, _, _, _)
\* The runs lo..hi of s without their first n bytes.
SkipRange(s, lo, hi, n) ==
    IF lo > hi THEN <<>>
    ELSE IF n <= 0 THEN SubSeq(s, lo, hi)
    ELSE IF lo = hi THEN Repeat(s[lo].c, s[lo].n - n)
    ELSE LET m == (lo + hi) \div 2
             left == RangeLen(s, lo, m)
         IN IF n >= left THEN SkipRange(s, m + 1, hi, n - left)
            ELSE SkipRange(s, lo, m, n) \o SubSeq(s, m + 1, hi)

\* s[off:off+n], cut at the end of s.
TakeFrom(s, off, n) == Take(SkipRange(s, 1, Len(s), off), n)

RECURSIVE Expand(_)
\* The characters of s, one by one.
Expand(s) ==
    IF s = <<>> THEN <<>>
    ELSE IF Len(s) = 1 THEN [i \in 1..s[1].n |-> s[1].c]
    ELSE Expand(SubSeq(s, 1, Len(s) \div 2))
           \o Expand(SubSeq(s, Len(s) \div 2 + 1, Len(s)))

\* strings.HasPrefix(s, p)
HasPrefix(s, p) ==
    \/ p = <<>>
    \/ /\ Len(s) >= Len(p)
       /\ \A j \in 1..(Len(p) - 1) : s[j] = p[j]
       /\ s[Len(p)].c = p[Len(p)].c
       /\ s[Len(p)].n >= p[Len(p)].n

\* strings.Contains(s, p): the first run of p ends a run of s, the runs in
\* between are equal, the last run of p starts a run of s.
Contains(s, p) ==
    \/ p = <<>>
    \/ /\ Len(p) = 1
       /\ \E i \in 1..Len(s) : s[i].c = p[1].c /\ s[i].n >= p[1].n
    \/ /\ Len(p) >= 2
       /\ \E i \in 1..(Len(s) - Len(p) + 1) :
            /\ s[i].c = p[1].c
            /\ s[i].n >= p[1].n
            /\ \A j \in 2..(Len(p) - 1) : s[i + j - 1] = p[j]
            /\ s[i + Len(p) - 1].c = p[Len(p)].c
            /\ s[i + Len(p) - 1].n >= p[Len(p)].n

\* unicode.IsSpace on the characters of the model's alphabet.
IsSpace(c) == c \in {" ", "\t", "\n", "\r"}

RECURSIVE TrimLeft(_)
TrimLeft(s) ==
    IF s = <<>> THEN <<>>
    ELSE IF IsSpace(s[1].c) THEN TrimLeft(Tail(s))
    ELSE s

RECURSIVE TrimRight(_)
TrimRight(s) ==
    IF s = <<>> THEN <<>>
    ELSE IF IsSpace(s[Len(s)].c) THEN TrimRight(SubSeq(s, 1, Len(s) - 1))
    ELSE s

\* strings.TrimSpace(s)
TrimSpace(s) == TrimRight(TrimLeft(s))

DigitChars == <<"0", "1", "2", "3", "4", "5", "6", "7", "8", "9">>

RECURSIVE Digits(_)
Digits(n) ==
    IF n < 10 THEN S(<<DigitChars[n + 1]>>)
    ELSE Cat(Digits(n \div 10), S(<<DigitChars[(n % 10) + 1]>>))

\* fmt's %d
Itoa(n) == IF n < 0 THEN Cat(S(<<"-">>), Digits(-n)) ELSE Digits(n)


(***************************************************************************)
(* float64.  The finite values of the model are the multiples of 0.1, held *)
(* as their number of tenths; NaN and the infinities are values of their   *)
(* own.                                                                    *)
(***************************************************************************)

Fin(tenths) == [k |-> "fin", v |-> tenths]
NaN == [k |-> "nan", v |-> 0]
PosInf == [k |-> "inf", v |-> 1]

\* f < 0 on float64: false for NaN.
FloatNegative(f) == f.k \in {"fin", "inf"} /\ f.v < 0

\* strconv.FormatFloat(f, 'f', -1, 64) of a finite value: the shortest
\* decimal that reads back as f.
FormatFloat(f) ==
    LET a == IF f.v < 0 THEN -f.v ELSE f.v
        whole == Digits(a \div 10)
        frac == IF a % 10 = 0 THEN <<>>
                ELSE Cat(S(<<".">>), Digits(a % 10))
    IN Cat(IF f.v < 0 THEN S(<<"-">>) ELSE <<>>, Cat(whole, frac))

\* fmt's %f of a finite value: six decimals.
FormatF(f) ==
    LET a == IF f.v < 0 THEN -f.v ELSE f.v
    IN Cat(IF f.v < 0 THEN S(<<"-">>) ELSE <<>>,
           Cat(Digits(a \div 10),
               Cat(S(<<".">>), Cat(Digits(a % 10), Repeat("0", 5)))))

(***************************************************************************)
(* encoding/json: JSON values                                              *)
(***************************************************************************)

JNull == [t |-> "null"]
JBool(b) == [t |-> "bool", b |-> b]
JNum(lit) == [t |-> "num", lit |-> lit]
JStr(s) == [t |-> "str", s |-> s]
JArr(e) == [t |-> "arr", e |-> e]
JObj(kv) == [t |-> "obj", kv |-> kv]
Member(k, v) == [k |-> k, v |-> v]

litNull == S(<<"n", "u", "l", "l">>)
litTrue == S(<<"t", "r", "u", "e">>)
litFalse == S(<<"f", "a", "l", "s", "e">>)

\* The rune a \uXXXX escape stands for, where the model's alphabet has it.
OtherRune == "U+FFFD"
RuneOf(h) ==
    CASE h = <<"0", "0", "3", "c">> -> "<"
      [] h = <<"0", "0", "3", "e">> -> ">"
      [] h = <<"0", "0", "2", "6">> -> "&"
      [] OTHER -> OtherRune

\* encodeState.string with escapeHTML: what one character is written as.
EscapeJSON(c) ==
    CASE c = "\"" -> <<"\\", "\"">>
      [] c = "\\" -> <<"\\", "\\">>
      [] c = "\n" -> <<"\\", "n">>
      [] c = "\r" -> <<"\\", "r">>
      [] c = "\t" -> <<"\\", "t">>
      [] c = "<" -> <<"\\", "u", "0", "0", "3", "c">>
      [] c = ">" -> <<"\\", "u", "0", "0", "3", "e">>
      [] c = "&" -> <<"\\", "u", "0", "0", "2", "6">>
      [] OTHER -> <<c>>

RECURSIVE RepeatStr(_, _)
RepeatStr(s, n) == IF n <= 0 THEN <<>> ELSE Cat(s, RepeatStr(s, n - 1))

RECURSIVE EscapeAll(_)
EscapeAll(s) ==
    IF s = <<>> THEN <<>>
    ELSE IF Len(s) = 1
        THEN IF EscapeJSON(s[1].c) = <<s[1].c>> THEN s
             ELSE RepeatStr(S(EscapeJSON(s[1].c)), s[1].n)
    ELSE Cat(EscapeAll(SubSeq(s, 1, Len(s) \div 2)),
             EscapeAll(SubSeq(s, Len(s) \div 2 + 1, Len(s))))

QuoteJSON(s) == Cat(S(<<"\"">>), Cat(EscapeAll(s), S(<<"\"">>)))

RECURSIVE WriteValue(_), WriteElems(_), WriteMembers(_)
\* The compact JSON text of a value, as json.Marshal writes it.
WriteValue(v) ==
    CASE v.t = "null" -> litNull
      [] v.t = "bool" -> IF v.b THEN litTrue ELSE litFalse
      [] v.t = "num" -> v.lit
      [] v.t = "str" -> QuoteJSON(v.s)
      [] v.t = "arr" -> Cat(S(<<"[">>), Cat(WriteElems(v.e), S(<<"]">>)))
      [] v.t = "obj" -> Cat(S(<<"{">>), Cat(WriteMembers(v.kv), S(<<"}">>)))

WriteElems(e) ==
    IF e = <<>> THEN <<>>
    ELSE IF Len(e) = 1 THEN WriteValue(e[1])
    ELSE Cat(WriteValue(e[1]), Cat(S(<<",">>), WriteElems(Tail(e))))

WriteMembers(kv) ==
    IF kv = <<>> THEN <<>>
    ELSE Cat(QuoteJSON(kv[1].k),
             Cat(S(<<":">>),
                 Cat(WriteValue(kv[1].v),
                     IF Len(kv) = 1 THEN <<>>
                     ELSE Cat(S(<<",">>), WriteMembers(Tail(kv))))))

(***************************************************************************)
(* encoding/json: the scanner (checkValid) and value reader                *)
(***************************************************************************)

\* A place in a text d: i is the run, k the bytes of it already read.
Pos(i, k) == [i |-> i, k |-> k]
Start == Pos(1, 0)
AtEnd(d, p) == p.i > Len(d)
Peek(d, p) == d[p.i].c
\* One byte on.
Adv(d, p) == IF p.k + 1 >= d[p.i].n THEN Pos(p.i + 1, 0) ELSE Pos(p.i, p.k + 1)

RECURSIVE AdvBy(_, _, _)
AdvBy(d, p, n) ==
    IF n <= 0 \/ AtEnd(d, p) THEN p ELSE AdvBy(d, Adv(d, p), n - 1)

RECURSIVE CharsFrom(_, _, _)
\* The next n characters (fewer at the end of the text).
CharsFrom(d, p, n) ==
    IF n <= 0 \/ AtEnd(d, p) THEN <<>>
    ELSE <<Peek(d, p)>> \o CharsFrom(d, Adv(d, p), n - 1)

\* The first run from run i on whose character passes Test; Len(d) + 1
\* when there is none.
FirstRun(d, i, Test(_)) ==
    IF \E j \in i..Len(d) : Test(d[j].c)
    THEN CHOOSE j \in i..Len(d) :
            Test(d[j].c) /\ \A h \in i..(j - 1) : ~Test(d[h].c)
    ELSE Len(d) + 1

\* The text from p up to q, for p before q.
Between(d, p, q) ==
    IF p.i = q.i THEN Repeat(d[p.i].c, q.k - p.k)
    ELSE <<Run(d[p.i].c, d[p.i].n - p.k)>>
           \o SubSeq(d, p.i + 1, q.i - 1)
           \o (IF q.k > 0 THEN <<Run(d[q.i].c, q.k)>> ELSE <<>>)

Fail == [ok |-> FALSE, v |-> JNull, pos |-> Start]
Ok(v, pos) == [ok |-> TRUE, v |-> v, pos |-> pos]

\* scanner.go isSpace
IsJSONSpace(c) == c \in {" ", "\t", "\r", "\n"}
NotJSONSpace(c) == ~IsJSONSpace(c)
SkipWS(d, p) ==
    IF AtEnd(d, p) \/ NotJSONSpace(Peek(d, p)) THEN p
    ELSE Pos(FirstRun(d, p.i, NotJSONSpace), 0)

IsDigit(c) == c \in {"0", "1", "2", "3", "4", "5", "6", "7", "8", "9"}
NotDigit(c) == ~IsDigit(c)
SkipDigits(d, p) ==
    IF AtEnd(d, p) \/ NotDigit(Peek(d, p)) THEN p
    ELSE Pos(FirstRun(d, p.i, NotDigit), 0)

IsHex(c) == IsDigit(c) \/ c \in {"a", "b", "c", "d", "e", "f",
                                  "A", "B", "C", "D", "E", "F"}
\* c < 0x20
IsControl(c) == c \in {"\t", "\n", "\r", "\f"}
\* What ends a stretch of plain characters in a string literal.
StringStop(c) == c = "\"" \/ c = "\\" \/ IsControl(c)

SimpleEscapes == {"\"", "\\", "/", "b", "f", "n", "r", "t"}
Unescape(c) ==
    CASE c = "n" -> "\n"
      [] c = "r" -> "\r"
      [] c = "t" -> "\t"
      [] c = "f" -> "\f"
      [] c = "b" -> "U+0008"
      [] OTHER -> c

\* Where the stretch of plain characters that starts at p ends.
StretchEnd(d, p) ==
    IF StringStop(Peek(d, p)) THEN p
    ELSE Pos(FirstRun(d, p.i, StringStop), 0)

RECURSIVE ScanString(_, _, _)
\* After \u at e, h being the (at most four) characters that follow.
ScanUnicode(d, e, text, h) ==
    IF Len(h) = 4 /\ \A i \in 1..4 : IsHex(h[i])
    THEN ScanString(d, AdvBy(d, e, 5), Cat(text, S(<<RuneOf(h)>>)))
    ELSE Fail

\* After a backslash, e being the place of the character that follows it.
ScanEscape(d, e, text) ==
    IF AtEnd(d, e) THEN Fail
    ELSE IF Peek(d, e) = "u"
        THEN ScanUnicode(d, e, text, CharsFrom(d, Adv(d, e), 4))
    ELSE IF Peek(d, e) \in SimpleEscapes
        THEN ScanString(d, Adv(d, e), Cat(text, S(<<Unescape(Peek(d, e))>>)))
    ELSE Fail

\* At the end q of a stretch of plain characters.
ScanStop(d, q, text) ==
    IF AtEnd(d, q) \/ IsControl(Peek(d, q)) THEN Fail
    ELSE IF Peek(d, q) = "\"" THEN Ok(JStr(text), Adv(d, q))
    ELSE ScanEscape(d, Adv(d, q), text)

ScanStretch(d, p, q, acc) == ScanStop(d, q, Cat(acc, Between(d, p, q)))

\* The rest of a string literal, p being after its opening quote or after
\* an escape; acc is the text read so far.
ScanString(d, p, acc) ==
    IF AtEnd(d, p) THEN Fail ELSE ScanStretch(d, p, StretchEnd(d, p), acc)

Has(d, p, chars) == ~AtEnd(d, p) /\ Peek(d, p) \in chars

\* A number literal: -? (0 | [1-9][0-9]*) (. [0-9]+)? ([eE] [+-]? [0-9]+)?
\* p is where the literal starts; each step is given where it has got to.
ScanNumberEnd(d, p, g) == Ok(JNum(Between(d, p, g)), g)
ScanExpDigits(d, p, f, g) == IF g = f THEN Fail ELSE ScanNumberEnd(d, p, g)
ScanExpSign(d, p, f) ==
    IF Has(d, f, {"+", "-"})
    THEN ScanExpDigits(d, p, Adv(d, f), SkipDigits(d, Adv(d, f)))
    ELSE ScanExpDigits(d, p, f, SkipDigits(d, f))
ScanExp(d, p, c) ==
    IF Has(d, c, {"e", "E"}) THEN ScanExpSign(d, p, Adv(d, c))
    ELSE ScanNumberEnd(d, p, c)
ScanFracDigits(d, p, b, c) == IF c = b THEN Fail ELSE ScanExp(d, p, c)
ScanFrac(d, p, b) ==
    IF Has(d, b, {"."})
    THEN ScanFracDigits(d, p, Adv(d, b), SkipDigits(d, Adv(d, b)))
    ELSE ScanExp(d, p, b)
ScanInt(d, p, a) ==
    IF AtEnd(d, a) \/ NotDigit(Peek(d, a)) THEN Fail
    ELSE IF Peek(d, a) = "0" THEN ScanFrac(d, p, Adv(d, a))
    ELSE ScanFrac(d, p, SkipDigits(d, a))
ScanNumber(d, p) ==
    IF Peek(d, p) = "-" THEN ScanInt(d, p, Adv(d, p)) ELSE ScanInt(d, p, p)

RECURSIVE ParseValue(_, _), ParseElems(_, _, _), ParseMembers(_, _, _)

\* After an element r of an array, t being the place after the white space
\* that follows it.
ParseElemNext(d, acc, r, t) ==
    IF ~r.ok \/ AtEnd(d, t) THEN Fail
    ELSE IF Peek(d, t) = "," THEN ParseElems(d, Adv(d, t), Append(acc, r.v))
    ELSE IF Peek(d, t) = "]" THEN Ok(JArr(Append(acc, r.v)), Adv(d, t))
    ELSE Fail
ParseElemEnd(d, acc, r) == ParseElemNext(d, acc, r, SkipWS(d, r.pos))
\* The elements of an array from the start of an element on.
ParseElems(d, p, acc) == ParseElemEnd(d, acc, ParseValue(d, p))

\* After a member of an object, u being the place after the white space
\* that follows it.
ParseMemberNext(d, acc, u) ==
    IF AtEnd(d, u) THEN Fail
    ELSE IF Peek(d, u) = "," THEN ParseMembers(d, Adv(d, u), acc)
    ELSE IF Peek(d, u) = "}" THEN Ok(JObj(acc), Adv(d, u))
    ELSE Fail
ParseMemberValue(d, acc, k, r) ==
    IF r.ok
    THEN ParseMemberNext(d, Append(acc, Member(k.v.s, r.v)), SkipWS(d, r.pos))
    ELSE Fail
ParseColon(d, acc, k, t) ==
    IF Has(d, t, {":"})
    THEN ParseMemberValue(d, acc, k, ParseValue(d, Adv(d, t)))
    ELSE Fail
ParseKeyEnd(d, acc, k) ==
    IF k.ok THEN ParseColon(d, acc, k, SkipWS(d, k.pos)) ELSE Fail
ParseKey(d, acc, p) ==
    IF Has(d, p, {"\""}) THEN ParseKeyEnd(d, acc, ScanString(d, Adv(d, p), <<>>))
    ELSE Fail
\* The members of an object from the start of a key on.
ParseMembers(d, p, acc) == ParseKey(d, acc, SkipWS(d, p))

\* After { and the white space that follows it.
ParseObject(d, r) ==
    IF Has(d, r, {"}"}) THEN Ok(JObj(<<>>), Adv(d, r))
    ELSE ParseMembers(d, r, <<>>)
\* After [ and the white space that follows it.
ParseArray(d, r) ==
    IF Has(d, r, {"]"}) THEN Ok(JArr(<<>>), Adv(d, r))
    ELSE ParseElems(d, r, <<>>)
\* The literal word at p.
ParseLiteral(d, p, word, v) ==
    IF S(CharsFrom(d, p, BLen(word))) = word
    THEN Ok(v, AdvBy(d, p, BLen(word)))
    ELSE Fail
\* A value that starts at p.
ParseValueAt(d, p) ==
    IF AtEnd(d, p) THEN Fail
    ELSE CASE Peek(d, p) = "{" -> ParseObject(d, SkipWS(d, Adv(d, p)))
           [] Peek(d, p) = "[" -> ParseArray(d, SkipWS(d, Adv(d, p)))
           [] Peek(d, p) = "\"" -> ScanString(d, Adv(d, p), <<>>)
           [] Peek(d, p) = "-" \/ IsDigit(Peek(d, p)) -> ScanNumber(d, p)
           [] Peek(d, p) = "n" -> ParseLiteral(d, p, litNull, JNull)
           [] Peek(d, p) = "t" -> ParseLiteral(d, p, litTrue, JBool(TRUE))
           [] Peek(d, p) = "f" -> ParseLiteral(d, p, litFalse, JBool(FALSE))
           [] OTHER -> Fail
ParseValue(d, p) == ParseValueAt(d, SkipWS(d, p))

ParseEnd(d, r) == IF r.ok /\ AtEnd(d, SkipWS(d, r.pos)) THEN r ELSE Fail
\* One JSON value and nothing but white space around it; an empty or
\* all-white-space text is not a document.
ParseDocument(d) == ParseEnd(d, ParseValue(d, Start))

(***************************************************************************)
(* encoding/json: Go values and their types.  A struct value is a function *)
(* from its field names; a slice is nil or holds its elements; a pointer   *)
(* is <<>> (nil) or <<v>>.                                                 *)
(***************************************************************************)

TString == [k |-> "string"]
TInt == [k |-> "int"]
TFloat == [k |-> "float"]
TStruct(fields) == [k |-> "struct", fields |-> fields]
TSlice(elem) == [k |-> "slice", elem |-> elem]
TPtr(elem) == [k |-> "ptr", elem |-> elem]
\* One struct field with its `json:"key[,omitempty]"` tag.
Field(name, key, omitempty, ty) ==
    [name |-> name, key |-> key, omitempty |-> omitempty, ty |-> ty]

NilSlice == [nil |-> TRUE, e |-> <<>>]
Slice(e) == [nil |-> FALSE, e |-> e]
NilPtr == <<>>
Ptr(v) == <<v>>

FieldNames(fields) == {fields[i].name : i \in 1..Len(fields)}
FieldNamed(fields, name) ==
    fields[CHOOSE i \in 1..Len(fields) : fields[i].name = name]

RECURSIVE Zero(_)
\* The zero value of a type.
Zero(ty) ==
    CASE ty.k = "string" -> <<>>
      [] ty.k = "int" -> 0
      [] ty.k = "float" -> Fin(0)
      [] ty.k = "struct" ->
           [n \in FieldNames(ty.fields) |-> Zero(FieldNamed(ty.fields, n).ty)]
      [] ty.k = "slice" -> NilSlice
      [] ty.k = "ptr" -> NilPtr

\* isEmptyValue taking a pointer to a zero number for empty, as the number
\* itself would be.
IsEmptyValueOfPointee(ty, v) ==
    CASE ty.k = "string" -> v = <<>>
      [] ty.k = "int" -> v = 0
      [] ty.k = "float" -> v = Fin(0)
      [] ty.k = "struct" -> FALSE
      [] ty.k = "slice" -> v.e = <<>>
      [] ty.k = "ptr" ->
           v = NilPtr \/ (ty.elem.k = "float" /\ v[1] = Fin(0))

\* encode.go isEmptyValue: what omitempty leaves out.
IsEmptyValue(ty, v) ==
    CASE ty.k = "string" -> v = <<>>
      [] ty.k = "int" -> v = 0
      [] ty.k = "float" -> v = Fin(0)
      [] ty.k = "struct" -> FALSE
      [] ty.k = "slice" -> v.e = <<>>
      [] ty.k = "ptr" -> v = NilPtr

RECURSIVE Encodable(_, _)
\* json.Marshal fails on a float that is NaN or infinite
\* (UnsupportedValueError), unless omitempty leaves the field out.
Encodable(ty, v) ==
    CASE ty.k = "float" -> v.k = "fin"
      [] ty.k = "struct" ->
           \A i \in 1..Len(ty.fields) :
              LET f == ty.fields[i]
              IN (f.omitempty /\ IsEmptyValue(f.ty, v[f.name]))
                 \/ Encodable(f.ty, v[f.name])
      [] ty.k = "slice" -> \A i \in 1..Len(v.e) : Encodable(ty.elem, v.e[i])
      [] ty.k = "ptr" -> v = NilPtr \/ Encodable(ty.elem, v[1])
      [] OTHER -> TRUE

RECURSIVE Encode(_, _), EncodeFields(_, _)
\* The JSON value json.Marshal writes for v.
Encode(ty, v) ==
    CASE ty.k = "string" -> JStr(v)
      [] ty.k = "int" -> JNum(Itoa(v))
      [] ty.k = "float" -> JNum(FormatFloat(v))
      [] ty.k = "struct" -> JObj(EncodeFields(ty.fields, v))
      [] ty.k = "slice" ->
           IF v.nil THEN JNull
           ELSE JArr([i \in 1..Len(v.e) |-> Encode(ty.elem, v.e[i])])
      [] ty.k = "ptr" -> IF v = NilPtr THEN JNull ELSE Encode(ty.elem, v[1])

EncodeFields(fields, v) ==
    IF fields = <<>> THEN <<>>
    ELSE LET f == fields[1]
         IN (IF f.omitempty /\ IsEmptyValue(f.ty, v[f.name]) THEN <<>>
             ELSE <<Member(f.key, Encode(f.ty, v[f.name]))>>)
            \o EncodeFields(Tail(fields), v)

RECURSIVE Unsupported(_, _)
\* The value the UnsupportedValueError names: the first float in v that
\* cannot be written.
Unsupported(ty, v) ==
    CASE ty.k = "float" -> IF v.k = "nan" THEN S(<<"N", "a", "N">>) ELSE S(<<"+", "I",
                                                                "n", "f">>)
      [] ty.k = "struct" ->
           LET bad == {i \in 1..Len(ty.fields) :
                         ~Encodable(TStruct(<<ty.fields[i]>>), v)}
               f == ty.fields[CHOOSE i \in bad : \A j \in bad : i <= j]
           IN Unsupported(f.ty, v[f.name])
      [] ty.k = "slice" ->
           LET bad == {i \in 1..Len(v.e) : ~Encodable(ty.elem, v.e[i])}
           IN Unsupported(ty.elem, v.e[CHOOSE i \in bad : \A j \in bad : i <= j])
      [] ty.k = "ptr" -> Unsupported(ty.elem, v[1])

\* json.Marshal(v)
Marshal(ty, v) ==
    IF Encodable(ty, v)
    THEN [ok |-> TRUE, data |-> WriteValue(Encode(ty, v)), why |-> <<>>]
    ELSE [ok |-> FALSE, data |-> <<>>, why |-> Unsupported(ty, v)]

UpperCase == <<"A", "B", "C", "D", "E", "F", "G", "H", "I", "J", "K", "L", "M",
               "N", "O", "P", "Q", "R", "S", "T", "U", "V", "W", "X", "Y", "Z">>
LowerCase == <<"a", "b", "c", "d", "e", "f", "g", "h", "i", "j", "k", "l", "m",
               "n", "o", "p", "q", "r", "s", "t", "u", "v", "w", "x", "y", "z">>
ToLower(c) ==
    IF \E i \in 1..26 : UpperCase[i] = c
    THEN LowerCase[CHOOSE i \in 1..26 : UpperCase[i] = c]
    ELSE c

\* The ASCII case folding under which the decoder matches keys.
RECURSIVE Fold(_)
Fold(s) ==
    IF s = <<>> THEN <<>>
    ELSE IF Len(s) = 1 THEN <<Run(ToLower(s[1].c), s[1].n)>>
    ELSE Cat(Fold(SubSeq(s, 1, Len(s) \div 2)),
             Fold(SubSeq(s, Len(s) \div 2 + 1, Len(s))))

\* The field a key decodes into: an exact match of the tag, else a match
\* under case folding, else none (0).
FieldIndex(fields, key) ==
    IF \E i \in 1..Len(fields) : fields[i].key = key
    THEN CHOOSE i \in 1..Len(fields) : fields[i].key = key
    ELSE IF \E i \in 1..Len(fields) : Fold(fields[i].key) = Fold(key)
    THEN CHOOSE i \in 1..Len(fields) :
           /\ Fold(fields[i].key) = Fold(key)
           /\ \A j \in 1..(i - 1) : Fold(fields[j].key) # Fold(key)
    ELSE 0

RECURSIVE DigitsValue(_, _)
DigitsValue(chars, acc) ==
    IF chars = <<>> THEN acc
    ELSE DigitsValue(Tail(chars),
                     10 * acc + (CHOOSE n \in 0..9 : DigitChars[n + 1] = Head(chars)))

\* The characters of a short string; <<>> when it is longer than n bytes.
Chars(s, n) == IF BLen(s) > n THEN <<>> ELSE CharsFrom(s, Start, n)

\* A number literal that strconv.ParseInt reads: an optional sign and digits
\* (of at most nine digits, which the model's integers hold).
IsIntChars(cs) ==
    LET a == IF cs # <<>> /\ cs[1] = "-" THEN Tail(cs) ELSE cs
    IN a # <<>> /\ Len(a) <= 9 /\ \A i \in 1..Len(a) : IsDigit(a[i])
IntOfChars(cs) ==
    IF cs[1] = "-" THEN -DigitsValue(Tail(cs), 0) ELSE DigitsValue(cs, 0)
IsIntLit(lit) == IsIntChars(Chars(lit, 10))
IntOfLit(lit) == IntOfChars(Chars(lit, 10))

\* A number literal the model's float64 holds exactly: an integer literal
\* with at most one decimal after it.
IsFloatChars(cs) ==
    \/ IsIntChars(cs)
    \/ /\ Len(cs) > 2
       /\ IsIntChars(SubSeq(cs, 1, Len(cs) - 2))
       /\ cs[Len(cs) - 1] = "."
       /\ IsDigit(cs[Len(cs)])
FloatOfChars(cs) ==
    IF IsIntChars(cs) THEN Fin(10 * IntOfChars(cs))
    ELSE LET w == SubSeq(cs, 1, Len(cs) - 2)
             n == DigitsValue(<<cs[Len(cs)]>>, 0)
         IN Fin(IF w[1] = "-" THEN 10 * IntOfChars(w) - n
                ELSE 10 * IntOfChars(w) + n)
IsFloatLit(lit) == IsFloatChars(Chars(lit, 10))
FloatOfLit(lit) == FloatOfChars(Chars(lit, 10))

Decoded(ok, val) == [ok |-> ok, val |-> val, why |-> IF ok THEN "" ELSE "type"]

RECURSIVE Decode(_, _, _), DecodeMembers(_, _, _), DecodeElems(_, _, _)

\* d decoded into what a pointer points to.
DecodedPtr(d) == Decoded(d.ok, Ptr(d.val))
\* d decoded into field f of cur, then the members kv.  The decoder goes
\* on after an UnmarshalTypeError, but Unmarshal's caller drops the value.
DecodedField(ty, cur, f, d, kv) ==
    IF d.ok THEN DecodeMembers(ty, [cur EXCEPT ![f.name] = d.val], kv)
    ELSE Decoded(FALSE, [cur EXCEPT ![f.name] = d.val])
\* The first of the members kv, whose key names the i-th field, or none
\* when i = 0.
DecodeMember(ty, cur, kv, i) ==
    IF i = 0 THEN DecodeMembers(ty, cur, Tail(kv))
    ELSE DecodedField(ty, cur, ty.fields[i],
                      Decode(ty.fields[i].ty, cur[ty.fields[i].name], kv[1].v),
                      Tail(kv))
\* d decoded into a new element after those of acc, then the elements e.
DecodedElem(elem, acc, d, e) ==
    IF d.ok THEN DecodeElems(elem, e, Append(acc, d.val))
    ELSE Decoded(FALSE, Slice(Append(acc, d.val)))

\* decodeState.value: the JSON value j stored into a Go value of type ty
\* that now holds cur.  ok is FALSE when an UnmarshalTypeError was met
\* (Unmarshal then returns that error).
Decode(ty, cur, j) ==
    CASE ty.k = "ptr" ->
           IF j.t = "null" THEN Decoded(TRUE, NilPtr)
           ELSE DecodedPtr(Decode(ty.elem,
                                  IF cur = NilPtr THEN Zero(ty.elem) ELSE cur[1],
                                  j))
      [] ty.k = "slice" ->
           IF j.t = "null" THEN Decoded(TRUE, NilSlice)
           ELSE IF j.t = "arr" THEN DecodeElems(ty.elem, j.e, <<>>)
           ELSE Decoded(FALSE, cur)
      [] ty.k # "ptr" /\ ty.k # "slice" /\ j.t = "null" -> Decoded(TRUE, cur)
      [] ty.k = "string" /\ j.t # "null" ->
           IF j.t = "str" THEN Decoded(TRUE, j.s) ELSE Decoded(FALSE, cur)
      [] ty.k = "int" /\ j.t # "null" ->
           IF j.t = "num" /\ IsIntLit(j.lit) THEN Decoded(TRUE, IntOfLit(j.lit))
           ELSE Decoded(FALSE, cur)
      [] ty.k = "float" /\ j.t # "null" ->
           IF j.t = "num" /\ IsFloatLit(j.lit)
           THEN Decoded(TRUE, FloatOfLit(j.lit))
           ELSE Decoded(FALSE, cur)
      [] ty.k = "struct" /\ j.t # "null" ->
           IF j.t = "obj" THEN DecodeMembers(ty, cur, j.kv)
           ELSE Decoded(FALSE, cur)

\* decodeState.object: the members in order, each into the field its key
\* names; a key that names no field is skipped.
DecodeMembers(ty, cur, kv) ==
    IF kv = <<>> THEN Decoded(TRUE, cur)
    ELSE DecodeMember(ty, cur, kv, FieldIndex(ty.fields, kv[1].k))

\* decodeState.array into a slice: each element into a fresh element after
\* those of acc.
DecodeElems(elem, e, acc) ==
    IF e = <<>> THEN Decoded(TRUE, Slice(acc))
    ELSE DecodedElem(elem, acc, Decode(elem, Zero(elem), e[1]), Tail(e))

\* The document p decoded into a zero value of type ty.
DecodeDocument(ty, p) ==
    IF p.ok THEN Decode(ty, Zero(ty), p.v)
    ELSE [Decoded(FALSE, Zero(ty)) EXCEPT !.why = "syntax"]
\* json.Unmarshal taking an empty input for an empty value.
UnmarshalLenient(ty, data) ==
    IF data = <<>> THEN Decoded(TRUE, Zero(ty))
    ELSE DecodeDocument(ty, ParseDocument(data))
\* json.Unmarshal(data, &v) with v a zero value of type ty.
Unmarshal(ty, data) == DecodeDocument(ty, ParseDocument(data))

(***************************************************************************)
(* types.go                                                                *)
(***************************************************************************)

kContents == S(<<"c", "o", "n", "t", "e", "n", "t", "s">>)
kGenerationConfig ==
    S(<<"g", "e", "n", "e", "r", "a", "t", "i", "o", "n",
        "C", "o", "n", "f", "i", "g">>)
kTools == S(<<"t", "o", "o", "l", "s">>)
kParts == S(<<"p", "a", "r", "t", "s">>)
kText == S(<<"t", "e", "x", "t">>)
kMaxOutputTokens ==
    S(<<"m", "a", "x", "O", "u", "t", "p", "u", "t",
        "T", "o", "k", "e", "n", "s">>)
kTemperature == S(<<"t", "e", "m", "p", "e", "r", "a", "t", "u", "r", "e">>)
kGoogleSearch ==
    S(<<"g", "o", "o", "g", "l", "e", "S", "e", "a", "r", "c", "h">>)
kCandidates == S(<<"c", "a", "n", "d", "i", "d", "a", "t", "e", "s">>)
kUsageMetadata ==
    S(<<"u", "s", "a", "g", "e", "M", "e", "t", "a", "d", "a", "t", "a">>)
kContent == S(<<"c", "o", "n", "t", "e", "n", "t">>)
kFinishReason ==
    S(<<"f", "i", "n", "i", "s", "h", "R", "e", "a", "s", "o", "n">>)
kSafetyRatings ==
    S(<<"s", "a", "f", "e", "t", "y", "R", "a", "t", "i", "n", "g", "s">>)
kRole == S(<<"r", "o", "l", "e">>)
kPromptTokenCount ==
    S(<<"p", "r", "o", "m", "p", "t", "T", "o", "k", "e", "n",
        "C", "o", "u", "n", "t">>)
kCandidatesTokenCount ==
    S(<<"c", "a", "n", "d", "i", "d", "a", "t", "e", "s", "T", "o", "k", "e", "n",
        "C", "o", "u", "n", "t">>)
kTotalTokenCount ==
    S(<<"t", "o", "t", "a", "l", "T", "o", "k", "e", "n",
        "C", "o", "u", "n", "t">>)
kCategory == S(<<"c", "a", "t", "e", "g", "o", "r", "y">>)
kProbability ==
    S(<<"p", "r", "o", "b", "a", "b", "i", "l", "i", "t", "y">>)

Part == TStruct(<<Field("Text", kText, FALSE, TString)>>)
Content == TStruct(<<Field("Parts", kParts, FALSE, TSlice(Part))>>)
GenerationConfig ==
    TStruct(<<Field("MaxOutputTokens", kMaxOutputTokens, TRUE, TInt),
              Field("Temperature", kTemperature, TRUE, TPtr(TFloat))>>)
GoogleSearch == TStruct(<<>>)
Tool ==
    TStruct(<<Field("GoogleSearch", kGoogleSearch, TRUE, TPtr(GoogleSearch))>>)
Request ==
    TStruct(<<Field("Contents", kContents, FALSE, TSlice(Content)),
              Field("GenerationConfig", kGenerationConfig, FALSE,
                    GenerationConfig),
              Field("Tools", kTools, TRUE, TSlice(Tool))>>)

ResponsePart == TStruct(<<Field("Text", kText, FALSE, TString)>>)
ResponseContent ==
    TStruct(<<Field("Parts", kParts, FALSE, TSlice(ResponsePart)),
              Field("Role", kRole, FALSE, TString)>>)
SafetyRating ==
    TStruct(<<Field("Category", kCategory, FALSE, TString),
              Field("Probability", kProbability, FALSE, TString)>>)
Candidate ==
    TStruct(<<Field("Content", kContent, FALSE, ResponseContent),
              Field("FinishReason", kFinishReason, FALSE, TString),
              Field("SafetyRatings", kSafetyRatings, FALSE,
                    TSlice(SafetyRating))>>)
UsageMetadata ==
    TStruct(<<Field("PromptTokenCount", kPromptTokenCount, FALSE, TInt),
              Field("CandidatesTokenCount", kCandidatesTokenCount, FALSE, TInt),
              Field("TotalTokenCount", kTotalTokenCount, FALSE, TInt)>>)
Response ==
    TStruct(<<Field("Candidates", kCandidates, FALSE, TSlice(Candidate)),
              Field("UsageMetadata", kUsageMetadata, FALSE, UsageMetadata)>>)

RECURSIVE WriteStrings(_, _)
\* for _, p := range parts { b.WriteString(p.Text) }; b.String()
WriteStrings(b, parts) ==
    IF parts = <<>> THEN b
    ELSE WriteStrings(Cat(b, parts[1].Text), Tail(parts))

\* Text with a space written between the parts.
TextSpaced(r) ==
    IF Len(r.Candidates.e) = 0 THEN <<>>
    ELSE IF Len(r.Candidates.e[1].Content.Parts.e) = 0 THEN <<>>
    ELSE IF Len(r.Candidates.e[1].Content.Parts.e) = 1
    THEN r.Candidates.e[1].Content.Parts.e[1].Text
    ELSE WriteStrings(<<>>,
                      [i \in 1..Len(r.Candidates.e[1].Content.Parts.e) |->
                          [Text |-> Cat(IF i = 1 THEN <<>> ELSE S(<<" ">>),
                                        r.Candidates.e[1].Content.Parts.e[i].Text)]])
\* func (r *Response) Text() string
Text(r) ==
    IF Len(r.Candidates.e) = 0 THEN <<>>
    ELSE IF Len(r.Candidates.e[1].Content.Parts.e) = 0 THEN <<>>
    ELSE IF Len(r.Candidates.e[1].Content.Parts.e) = 1
    THEN r.Candidates.e[1].Content.Parts.e[1].Text
    ELSE WriteStrings(<<>>, r.Candidates.e[1].Content.Parts.e)

(***************************************************************************)
(* Go errors: the message and, for an error made with %w, the error it     *)
(* wraps.  An optional value is <<>> (nil) or <<v>>.                        *)
(***************************************************************************)

None == <<>>
Some(v) == <<v>>
NewError(text) == [text |-> text, cause |-> None]
\* fmt.Errorf(prefix + "%w", err)
Wrap(prefix, err) == [text |-> Cat(prefix, err.text), cause |-> Some(err)]

\* strconv.Quote, as fmt's %q applies it to a string.
QuoteGo(s) ==
    LET Esc(c) == CASE c = "\"" -> <<"\\", "\"">>
                    [] c = "\\" -> <<"\\", "\\">>
                    [] c = "\n" -> <<"\\", "n">>
                    [] c = "\r" -> <<"\\", "r">>
                    [] c = "\t" -> <<"\\", "t">>
                    [] c = "\f" -> <<"\\", "f">>
                    [] OTHER -> <<c>>
        RECURSIVE Q(_)
        Q(t) == IF t = <<>> THEN <<>>
                ELSE IF Len(t) = 1 THEN
                    IF Esc(t[1].c) = <<t[1].c>> THEN t
                    ELSE RepeatStr(S(Esc(t[1].c)), t[1].n)
                ELSE Cat(Q(SubSeq(t, 1, Len(t) \div 2)),
                         Q(SubSeq(t, Len(t) \div 2 + 1, Len(t))))
    IN Cat(S(<<"\"">>), Cat(Q(s), S(<<"\"">>)))

(***************************************************************************)
(* client.go: constants, Client, Option, New                               *)
(***************************************************************************)

defaultBaseURL ==
    S(<<"h", "t", "t", "p", "s", ":", "/", "/", "g", "e", "n", "e", "r",
        "a", "t", "i", "v", "e", "l", "a", "n", "g", "u", "a", "g", "e",
        ".", "g", "o", "o", "g", "l", "e", "a", "p", "i", "s", ".", "c",
        "o", "m", "/", "v", "1", "b", "e", "t", "a", "/", "m", "o", "d",
        "e", "l", "s">>)
defaultModel == S(<<"g", "e", "m", "i", "n", "i", "-", "3", "-", "p", "r",
                    "o", "-", "p", "r", "e", "v", "i", "e", "w">>)
\* seconds
defaultTimeout == 30
maxResponseBytes == 10 * 1024 * 1024
maxErrorBodyBytes == 1024

\* The values of the Doer interface: the *http.Client New makes, a caller's
\* executor, and the nil interface value.
HTTPClient(timeout) == [impl |-> "http.Client", timeout |-> timeout]
CallerDoer == [impl |-> "caller", timeout |-> 0]
NilDoer == [impl |-> "nil", timeout |-> 0]

Client(apiKey, model, baseURL, doer) ==
    [apiKey |-> apiKey, model |-> model, baseURL |-> baseURL, doer |-> doer]

\* An Option is the field it sets and the value it sets it to.
WithModel(model) == [set |-> "model", to |-> model]
WithDoer(d) == [set |-> "doer", to |-> d]
WithBaseURL(url) == [set |-> "baseURL", to |-> url]
\* o(c)
ApplyOption(c, o) == [c EXCEPT ![o.set] = o.to]

RECURSIVE ApplyOptionsFirstWins(_, _)
\* The options applied from the last to the first.
ApplyOptionsFirstWins(c, opts) ==
    IF opts = <<>> THEN c
    ELSE ApplyOption(ApplyOptionsFirstWins(c, Tail(opts)), Head(opts))

RECURSIVE ApplyOptions(_, _)
\* for _, o := range opts { o(c) }
ApplyOptions(c, opts) ==
    IF opts = <<>> THEN c
    ELSE ApplyOptions(ApplyOption(c, Head(opts)), Tail(opts))

ErrEmptyAPIKey == NewError(S(<<"g", "e", "m", "i", "n", "i", ":", " ", "A",
                               "P", "I", " ", "k", "e", "y", " ", "m", "u",
                               "s", "t", " ", "n", "o", "t", " ", "b", "e",
                               " ", "e", "m", "p", "t", "y">>))
ErrNotHTTPS(baseURL) ==
    NewError(Cat(S(<<"g", "e", "m", "i", "n", "i", ":", " ", "b", "a", "s",
                     "e", " ", "U", "R", "L", " ", "m", "u", "s", "t", " ",
                     "u", "s", "e", " ", "H", "T", "T", "P", "S", ",", " ",
                     "g", "o", "t", " ">>), QuoteGo(baseURL)))

\* New once the options are applied to c.
NewChecked(c) ==
    IF ~HasPrefix(c.baseURL, S(<<"h", "t", "t", "p", "s", ":", "/", "/">>))
    THEN [client |-> None, err |-> Some(ErrNotHTTPS(c.baseURL))]
    ELSE [client |-> Some(c), err |-> None]

\* New testing the key for emptiness without trimming it.
NewUntrimmed(apiKey, opts) ==
    IF apiKey = <<>>
    THEN [client |-> None, err |-> Some(ErrEmptyAPIKey)]
    ELSE NewChecked(ApplyOptions(Client(apiKey, defaultModel, defaultBaseURL,
                                        HTTPClient(defaultTimeout)), opts))

\* New testing the base URL before it applies the options.
NewCheckedFirst(apiKey, opts) ==
    IF TrimSpace(apiKey) = <<>>
    THEN [client |-> None, err |-> Some(ErrEmptyAPIKey)]
    ELSE [client |->
            Some(ApplyOptions(NewChecked(Client(apiKey, defaultModel,
                                                defaultBaseURL,
                                                HTTPClient(defaultTimeout))).client[1],
                              opts)),
          err |-> None]

\* New(apiKey, opts...): the pair it returns.
New(apiKey, opts) ==
    IF TrimSpace(apiKey) = <<>>
    THEN [client |-> None, err |-> Some(ErrEmptyAPIKey)]
    ELSE NewChecked(ApplyOptions(Client(apiKey, defaultModel, defaultBaseURL,
                                        HTTPClient(defaultTimeout)), opts))

(***************************************************************************)
(* client.go: GenerateOption, Generate, doRequest                          *)
(***************************************************************************)

generateConfig(maxTokens, temperature, googleSearch) ==
    [maxTokens |-> maxTokens, temperature |-> temperature,
     googleSearch |-> googleSearch]

WithMaxTokens(n) == [set |-> "maxTokens", to |-> n]
WithTemperature(t) == [set |-> "temperature", to |-> t]
WithGoogleSearch == [set |-> "googleSearch", to |-> TRUE]

ErrMaxTokens(n) ==
    NewError(Cat(S(<<"g", "e", "m", "i", "n", "i", ":", " ", "m", "a", "x",
                     "T", "o", "k", "e", "n", "s", " ", "m", "u", "s", "t",
                     " ", "b", "e", " ", "p", "o", "s", "i", "t", "i", "v",
                     "e", ",", " ", "g", "o", "t", " ">>), Itoa(n)))
ErrTemperature(t) ==
    NewError(Cat(S(<<"g", "e", "m", "i", "n", "i", ":", " ", "t", "e", "m",
                     "p", "e", "r", "a", "t", "u", "r", "e", " ", "m", "u",
                     "s", "t", " ", "b", "e", " ", "n", "o", "n", "-", "n",
                     "e", "g", "a", "t", "i", "v", "e", ",", " ", "g", "o",
                     "t", " ">>),
                 FormatF(t)))

\* reqBody built from the prompt with its surrounding white space trimmed.
RequestBodyTrimmed(prompt, cfg) ==
    [Contents |->
        Slice(<<[Parts |-> Slice(<<[Text |-> TrimSpace(prompt)]>>)]>>),
     GenerationConfig |-> [MaxOutputTokens |-> cfg.maxTokens,
                           Temperature |-> Ptr(cfg.temperature)],
     Tools |-> IF cfg.googleSearch
               THEN Slice(<<[GoogleSearch |-> Ptr(Zero(GoogleSearch))]>>)
               ELSE NilSlice]

\* reqBody with the temperature left out when it is zero, as a float64
\* field with omitempty would be.
RequestBodyOmittingZero(prompt, cfg) ==
    [Contents |-> Slice(<<[Parts |-> Slice(<<[Text |-> prompt]>>)]>>),
     GenerationConfig |-> [MaxOutputTokens |-> cfg.maxTokens,
                           Temperature |-> IF cfg.temperature = Fin(0)
                                           THEN NilPtr
                                           ELSE Ptr(cfg.temperature)],
     Tools |-> IF cfg.googleSearch
               THEN Slice(<<[GoogleSearch |-> Ptr(Zero(GoogleSearch))]>>)
               ELSE NilSlice]

\* reqBody with an empty tool list in place of none.
RequestBodyEmptyTools(prompt, cfg) ==
    [Contents |-> Slice(<<[Parts |-> Slice(<<[Text |-> prompt]>>)]>>),
     GenerationConfig |-> [MaxOutputTokens |-> cfg.maxTokens,
                           Temperature |-> Ptr(cfg.temperature)],
     Tools |-> IF cfg.googleSearch
               THEN Slice(<<[GoogleSearch |-> Ptr(Zero(GoogleSearch))]>>)
               ELSE Slice(<<[GoogleSearch |-> NilPtr]>>)]

\* reqBody as Generate builds it.
RequestBody(prompt, cfg) ==
    [Contents |-> Slice(<<[Parts |-> Slice(<<[Text |-> prompt]>>)]>>),
     GenerationConfig |-> [MaxOutputTokens |-> cfg.maxTokens,
                           Temperature |-> Ptr(cfg.temperature)],
     Tools |-> IF cfg.googleSearch
               THEN Slice(<<[GoogleSearch |-> Ptr(Zero(GoogleSearch))]>>)
               ELSE NilSlice]

\* strings.IndexByte on characters, counted from 1; 0 when c is not there.
IndexOf(cs, c) ==
    IF \E i \in 1..Len(cs) : cs[i] = c
    THEN CHOOSE i \in 1..Len(cs) : cs[i] = c /\ \A j \in 1..(i - 1) : cs[j] # c
    ELSE 0
\* cs before its character i (all of cs when i = 0), and after it.
Before(cs, i) == IF i = 0 THEN cs ELSE SubSeq(cs, 1, i - 1)
After(cs, i) == IF i = 0 THEN <<>> ELSE SubSeq(cs, i + 1, Len(cs))

\* What url.Parse rejects first: an ASCII control character anywhere in
\* the URL.
URLParses(url) == \A i \in 1..Len(url) : ~IsControl(url[i].c)
\* The *url.Error of url.Parse.
ErrURLParse(url) ==
    NewError(Cat(S(<<"p", "a", "r", "s", "e", " ">>), Cat(QuoteGo(url),
                 S(<<":", " ", "n", "e", "t", "/", "u", "r", "l", ":", " ",
                     "i", "n", "v", "a", "l", "i", "d", " ", "c", "o", "n",
                     "t", "r", "o", "l", " ", "c", "h", "a", "r", "a", "c",
                     "t", "e", "r", " ", "i", "n", " ", "U", "R", "L">>))))

\* A *url.URL.  The URLs doRequest makes start with https://, which New
\* has found at the start of c.baseURL, and the sample's URLs have no user
\* information, port or % escape: the fields below are the others.
URL(scheme, host, path, forceQuery, rawQuery, fragment) ==
    [Scheme |-> scheme, Host |-> host, Path |-> path,
     ForceQuery |-> forceQuery, RawQuery |-> rawQuery, Fragment |-> fragment]

\* url.Parse on what follows https://, the query and the fragment cut off:
\* the authority ends at the first slash, the path starts there.
ParseAuthority(rest, slash, forceQuery, query, frag) ==
    URL(S(<<"h", "t", "t", "p", "s">>), S(Before(rest, slash)),
        IF slash = 0 THEN <<>> ELSE S(SubSeq(rest, slash, Len(rest))),
        forceQuery, S(query), S(frag))
\* url.Parse on the URL without its fragment: a question mark that is the
\* last character forces an empty query, otherwise the first one starts
\* the query.
ParseQuery(rest, q, frag) ==
    ParseAuthority(SubSeq(Before(rest, q), 9, Len(Before(rest, q))),
                   IndexOf(SubSeq(Before(rest, q), 9, Len(Before(rest, q))), "/"),
                   q # 0 /\ q = Len(rest), After(rest, q), frag)
\* url.Parse on the characters of a URL without control characters: the
\* first # starts the fragment.
ParseChars(cs, hash) ==
    ParseQuery(Before(cs, hash), IndexOf(Before(cs, hash), "?"), After(cs, hash))
\* url.Parse(rawURL)
ParseURL(rawURL) ==
    IF ~URLParses(rawURL)
    THEN [ok |-> FALSE, url |-> None, err |-> Some(ErrURLParse(rawURL))]
    ELSE [ok |-> TRUE,
          url |-> Some(ParseChars(Expand(rawURL), IndexOf(Expand(rawURL), "#"))),
          err |-> None]

\* The characters a path keeps as they are when it is escaped, and the
\* further ones an already valid path may hold.
PathSafe ==
    {UpperCase[i] : i \in 1..26} \cup {LowerCase[i] : i \in 1..26}
      \cup {"0", "1", "2", "3", "4", "5", "6", "7", "8", "9", "-", "_", ".",
            "~", "$", "&", "+", ",", "/", ":", ";", "=", "@"}
PathValid == PathSafe \cup {"!", "'", "(", ")", "*", "[", "]"}
FragmentSafe == PathSafe \cup {"?", "!", "(", ")", "*"}
FragmentValid == FragmentSafe \cup {"'", "[", "]"}
\* %XX for the printable characters a path or fragment does not keep.
PercentCode(c) ==
    CASE c = " " -> S(<<"%", "2", "0">>) [] c = "!" -> S(<<"%", "2", "1">>) [] c = "\"" -> S(<<"%",
                                                                     "2",
                                                                     "2">>)
      [] c = "#" -> S(<<"%", "2", "3">>) [] c = "'" -> S(<<"%", "2", "7">>) [] c = "(" -> S(<<"%",
                                                                    "2",
                                                                    "8">>)
      [] c = ")" -> S(<<"%", "2", "9">>) [] c = "*" -> S(<<"%", "2", "A">>) [] c = "<" -> S(<<"%",
                                                                    "3",
                                                                    "C">>)
      [] c = ">" -> S(<<"%", "3", "E">>) [] c = "?" -> S(<<"%", "3", "F">>) [] c = "[" -> S(<<"%",
                                                                    "5",
                                                                    "B">>)
      [] c = "\\" -> S(<<"%", "5", "C">>) [] c = "]" -> S(<<"%", "5", "D">>) [] c = "^" -> S(<<"%",
                                                                     "5",
                                                                     "E">>)
      [] c = "{" -> S(<<"%", "7", "B">>) [] c = "|" -> S(<<"%",
                                                                    "7",
                                                                    "C">>)
      [] c = "}" -> S(<<"%", "7", "D">>) [] OTHER -> S(<<c>>)
RECURSIVE EscapeURL(_, _)
\* escape(s, mode): every character outside safe by its %XX.
EscapeURL(s, safe) ==
    IF s = <<>> THEN <<>>
    ELSE IF Len(s) = 1
        THEN IF s[1].c \in safe THEN s
             ELSE RepeatStr(PercentCode(s[1].c), s[1].n)
    ELSE Cat(EscapeURL(SubSeq(s, 1, Len(s) \div 2), safe),
             EscapeURL(SubSeq(s, Len(s) \div 2 + 1, Len(s)), safe))
\* u.EscapedPath() and u.EscapedFragment(): the text as it was parsed when
\* that is a valid encoding, its escaped form otherwise.
Escaped(s, safe, valid) ==
    IF \A i \in 1..Len(s) : s[i].c \in valid THEN s ELSE EscapeURL(s, safe)
\* u.String()
URLString(u) ==
    Cat(u.Scheme,
    Cat(S(<<":", "/", "/">>),
    Cat(u.Host,
    Cat(IF u.Path # <<>> /\ u.Path[1].c # "/" THEN S(<<"/">>) ELSE <<>>,
    Cat(Escaped(u.Path, PathSafe, PathValid),
    Cat(IF u.ForceQuery \/ u.RawQuery # <<>> THEN Cat(S(<<"?">>), u.RawQuery)
        ELSE <<>>,
        IF u.Fragment # <<>>
        THEN Cat(S(<<"#">>), Escaped(u.Fragment, FragmentSafe, FragmentValid))
        ELSE <<>>))))))
ErrMarshal(why) == NewError(Cat(S(<<"j", "s", "o", "n", ":", " ", "u", "n",
                                    "s", "u", "p", "p", "o", "r", "t", "e",
                                    "d", " ", "v", "a", "l", "u", "e", ":",
                                    " ">>), why))

\* context.Context values: the nil interface value, context.Background()
\* and the contexts a caller makes with context.WithCancel.
NilContext == "nil"
Background == "Background"
\* The error of http.NewRequestWithContext for a nil context.
ErrNilContext == NewError(S(<<"n", "e", "t", "/", "h", "t", "t", "p", ":",
                              " ", "n", "i", "l", " ", "C", "o", "n", "t",
                              "e", "x", "t">>))

\* bytes.NewReader(data), off bytes of it read.
Reader(data, off) == [data |-> data, off |-> off]
\* reader.Read of up to n bytes: the bytes and the reader afterwards.
ReadBytes(rd, n) ==
    [bytes |-> TakeFrom(rd.data, rd.off, n),
     reader |-> Reader(rd.data, IF rd.off + n > BLen(rd.data)
                                THEN BLen(rd.data) ELSE rd.off + n)]
\* io.ReadAll(reader)
ReadAll(rd) == ReadBytes(rd, BLen(rd.data) - rd.off)

\* The *http.Request doRequest hands to the executor.  Body is the reader
\* over jsonData; GetBody is the jsonData its closure holds.
HTTPRequest(ctx, method, url, header, body, getBody) ==
    [ctx |-> ctx, Method |-> method, URL |-> url, Header |-> header,
     Body |-> body, GetBody |-> getBody]

\* A call's frame: where the call is, its arguments while it has not
\* started, the request while the executor has it, how many times the
\* call has invoked the executor, what the executor returned, how many
\* bytes of the body the call has held, whether it has run json.Unmarshal
\* on them, and the pair Generate returns.
Frame(pc, args, req, doCount, reply, held, decoded, resp, err) ==
    [pc |-> pc, args |-> args, req |-> req, doCount |-> doCount,
     reply |-> reply, held |-> held, decoded |-> decoded,
     resp |-> resp, err |-> err]
Idle == Frame("idle", None, None, 0, None, 0, FALSE, None, None)
Called(ctx, prompt, opts) ==
    Frame("called", Some([ctx |-> ctx, prompt |-> prompt, opts |-> opts]),
          None, 0, None, 0, FALSE, None, None)
\* return nil, err before the executor is reached
Failed(err) == Frame("done", None, None, 0, None, 0, FALSE, None, Some(err))
\* c.doer.Do(req) entered
InFlight(req) == Frame("inflight", None, Some(req), 1, None, 0, FALSE, None, None)
\* c.doer.Do on the nil interface value: a nil dereference panic
Panicked == Frame("panicked", None, None, 0, None, 0, FALSE, None, None)

\* The headers with the key as a bearer token.
HeaderBearer(c) ==
    [h \in {"Content-Type", "x-goog-api-key"} |->
        IF h = "Content-Type" THEN S(<<"a", "p", "p", "l", "i", "c", "a",
                                       "t", "i", "o", "n", "/", "j", "s",
                                       "o", "n">>)
        ELSE Cat(S(<<"B", "e", "a", "r", "e", "r", " ">>), c.apiKey)]
\* The headers doRequest sets.
Header(c) ==
    [h \in {"Content-Type", "x-goog-api-key"} |->
        IF h = "Content-Type" THEN S(<<"a", "p", "p", "l", "i", "c", "a",
                                       "t", "i", "o", "n", "/", "j", "s",
                                       "o", "n">>) ELSE c.apiKey]

\* doRequest from json.Marshal's result m and url.Parse's result u on, up
\* to and including the call of c.doer.Do.
SendRequest(c, ctx, m, u) ==
    IF ~m.ok
    THEN Failed(Wrap(S(<<"g", "e", "m", "i", "n", "i", ":", " ", "m", "a",
                         "r", "s", "h", "a", "l", " ", "r", "e", "q", "u",
                         "e", "s", "t", ":", " ">>), ErrMarshal(m.why)))
    ELSE IF ctx = NilContext
    THEN Failed(Wrap(S(<<"g", "e", "m", "i", "n", "i", ":", " ", "c", "r",
                         "e", "a", "t", "e", " ", "r", "e", "q", "u", "e",
                         "s", "t", ":", " ">>), ErrNilContext))
    ELSE IF ~u.ok
    THEN Failed(Wrap(S(<<"g", "e", "m", "i", "n", "i", ":", " ", "c", "r",
                         "e", "a", "t", "e", " ", "r", "e", "q", "u", "e",
                         "s", "t", ":", " ">>), u.err[1]))
    ELSE IF c.doer = NilDoer THEN Panicked
    ELSE InFlight(HTTPRequest(ctx, "POST", u.url[1], Header(c),
                              Reader(m.data, 0), m.data))

\* The URL with the API key in a query parameter.
RequestURLWithKey(c) ==
    Cat(c.baseURL, Cat(S(<<"/">>), Cat(c.model, Cat(S(<<":", "g", "e", "n", "e",
                                                   "r", "a", "t", "e", "C",
                                                   "o", "n", "t", "e", "n",
                                                   "t", "?", "k", "e", "y",
                                                   "=">>),
                                               c.apiKey))))
\* fmt.Sprintf("%s/%s:generateContent", c.baseURL, c.model)
RequestURL(c) ==
    Cat(c.baseURL, Cat(S(<<"/">>), Cat(c.model, S(<<":", "g", "e", "n", "e",
                                               "r", "a", "t", "e", "C",
                                               "o", "n", "t", "e", "n",
                                               "t">>))))

\* doRequest up to and including the call of c.doer.Do.
doRequestSend(c, ctx, reqBody) ==
    SendRequest(c, ctx, Marshal(Request, reqBody), ParseURL(RequestURL(c)))

\* Generate rejecting only a negative maxTokens.
GenerateCheckedNegative(c, ctx, prompt, cfg) ==
    IF cfg.maxTokens < 0 THEN Failed(ErrMaxTokens(cfg.maxTokens))
    ELSE IF FloatNegative(cfg.temperature)
    THEN Failed(ErrTemperature(cfg.temperature))
    ELSE doRequestSend(c, ctx, RequestBody(prompt, cfg))

\* Generate once the options are applied to cfg.
GenerateChecked(c, ctx, prompt, cfg) ==
    IF cfg.maxTokens <= 0 THEN Failed(ErrMaxTokens(cfg.maxTokens))
    ELSE IF FloatNegative(cfg.temperature)
    THEN Failed(ErrTemperature(cfg.temperature))
    ELSE doRequestSend(c, ctx, RequestBody(prompt, cfg))

\* Generate up to and including the call of c.doer.Do.
GenerateSend(c, ctx, prompt, opts) ==
    GenerateChecked(c, ctx, prompt,
                    ApplyOptions(generateConfig(32000, Fin(10), FALSE), opts))

\* context.Canceled
Canceled == NewError(S(<<"c", "o", "n", "t", "e", "x", "t", " ", "c", "a",
                         "n", "c", "e", "l", "e", "d">>))
RECURSIVE ErrorsIs(_, _)
\* errors.Is(err, target)
ErrorsIs(err, target) ==
    err = target \/ (err.cause # None /\ ErrorsIs(err.cause[1], target))

\* req.GetBody returning the reader that is req.Body.
GetBodyReaderShared(req) == req.Body
\* req.GetBody(): io.NopCloser(bytes.NewReader(jsonData))
GetBodyReader(req) == Reader(req.GetBody, 0)

\* What the executor returns: err, or a response with a status code and a
\* body stream that delivers body, or fails (failAt = <<n>>) after
\* delivering n bytes of it.
Reply(err, status, body, failAt) ==
    [err |-> err, status |-> status, body |-> body, failAt |-> failAt]
ErrRead == NewError(S(<<"u", "n", "e", "x", "p", "e", "c", "t", "e", "d",
                        " ", "E", "O", "F">>))

\* io.ReadAll(io.LimitReader(resp.Body, limit)): the bytes it returns and
\* its error.  The limited reader stops asking the stream once it has
\* delivered limit bytes.
ReadAllLimited(reply, limit) ==
    IF reply.failAt # None /\ reply.failAt[1] < limit
    THEN [body |-> Take(reply.body, reply.failAt[1]), err |-> Some(ErrRead)]
    ELSE [body |-> Take(reply.body, limit), err |-> None]

ErrTooLarge ==
    NewError(Cat(S(<<"g", "e", "m", "i", "n", "i", ":", " ", "r", "e", "s",
                     "p", "o", "n", "s", "e", " ", "e", "x", "c", "e", "e",
                     "d", "s", " ">>),
                 Cat(Itoa(maxResponseBytes), S(<<" ", "b", "y", "t", "e",
                                                 " ", "l", "i", "m", "i",
                                                 "t">>))))
\* The HTTP-status error with the whole body in it.
ErrHTTPWhole(status, body) ==
    NewError(Cat(S(<<"g", "e", "m", "i", "n", "i", ":", " ", "H", "T", "T",
                     "P", " ">>), Cat(Itoa(status), Cat(S(<<":", " ">>), body))))
ErrHTTP(status, body) ==
    LET msg == IF BLen(body) > maxErrorBodyBytes
               THEN Cat(Take(body, maxErrorBodyBytes), S(<<".", ".", ".",
                                                           "(", "t", "r",
                                                           "u", "n", "c",
                                                           "a", "t", "e",
                                                           "d", ")">>))
               ELSE body
    IN NewError(Cat(S(<<"g", "e", "m", "i", "n", "i", ":", " ", "H", "T",
                        "T", "P", " ">>), Cat(Itoa(status), Cat(S(<<":", " ">>), msg))))
ErrJSON(why) ==
    NewError(IF why = "syntax" THEN S(<<"i", "n", "v", "a", "l", "i", "d",
                                        " ", "c", "h", "a", "r", "a", "c",
                                        "t", "e", "r", " ", "i", "n", " ",
                                        "J", "S", "O", "N", " ", "i", "n",
                                        "p", "u", "t">>)
             ELSE S(<<"j", "s", "o", "n", ":", " ", "c", "a", "n", "n",
                      "o", "t", " ", "u", "n", "m", "a", "r", "s", "h",
                      "a", "l", " ", "i", "n", "t", "o", " ", "G", "o",
                      " ", "v", "a", "l", "u", "e">>))

\* Generate returns (resp, err) after the executor returned reply.
Returned(reply, held, decoded, resp, err) ==
    Frame("done", None, None, 1, Some(reply), held, decoded, resp, err)

\* doRequest returning a Response that json.Unmarshal did not fill.
ReceiveDecodedUnfilled(reply, body, u) ==
    IF ~u.ok
    THEN Returned(reply, BLen(body), TRUE, None,
                  Some(Wrap(S(<<"g", "e", "m", "i", "n", "i", ":", " ",
                                "u", "n", "m", "a", "r", "s", "h", "a",
                                "l", " ", "r", "e", "s", "p", "o", "n",
                                "s", "e", ":", " ">>), ErrJSON(u.why))))
    ELSE Returned(reply, BLen(body), TRUE, Some(Zero(Response)), None)

\* Generate returning the Response it declared together with the error.
ReceiveDecodedBoth(reply, body, u) ==
    IF ~u.ok
    THEN Returned(reply, BLen(body), TRUE, Some(u.val),
                  Some(Wrap(S(<<"g", "e", "m", "i", "n", "i", ":", " ",
                                "u", "n", "m", "a", "r", "s", "h", "a",
                                "l", " ", "r", "e", "s", "p", "o", "n",
                                "s", "e", ":", " ">>), ErrJSON(u.why))))
    ELSE Returned(reply, BLen(body), TRUE, Some(u.val), None)

\* doRequest after json.Unmarshal returned u for body.
ReceiveDecoded(reply, body, u) ==
    IF ~u.ok
    THEN Returned(reply, BLen(body), TRUE, None,
                  Some(Wrap(S(<<"g", "e", "m", "i", "n", "i", ":", " ",
                                "u", "n", "m", "a", "r", "s", "h", "a",
                                "l", " ", "r", "e", "s", "p", "o", "n",
                                "s", "e", ":", " ">>), ErrJSON(u.why))))
    ELSE Returned(reply, BLen(body), TRUE, Some(u.val), None)

\* doRequest rejecting a body of exactly maxResponseBytes.
ReceiveBodyAtLimit(reply, r) ==
    IF r.err # None
    THEN Returned(reply, BLen(r.body), FALSE, None,
                  Some(Wrap(S(<<"g", "e", "m", "i", "n", "i", ":", " ",
                                "r", "e", "a", "d", " ", "r", "e", "s",
                                "p", "o", "n", "s", "e", ":", " ">>), r.err[1])))
    ELSE IF BLen(r.body) >= maxResponseBytes
    THEN Returned(reply, BLen(r.body), FALSE, None, Some(ErrTooLarge))
    ELSE IF reply.status >= 400
    THEN Returned(reply, BLen(r.body), FALSE, None,
                  Some(ErrHTTP(reply.status, r.body)))
    ELSE ReceiveDecoded(reply, r.body, Unmarshal(Response, r.body))

\* doRequest taking only the statuses above 400 for errors.
ReceiveBodyAbove400(reply, r) ==
    IF r.err # None
    THEN Returned(reply, BLen(r.body), FALSE, None,
                  Some(Wrap(S(<<"g", "e", "m", "i", "n", "i", ":", " ",
                                "r", "e", "a", "d", " ", "r", "e", "s",
                                "p", "o", "n", "s", "e", ":", " ">>), r.err[1])))
    ELSE IF BLen(r.body) > maxResponseBytes
    THEN Returned(reply, BLen(r.body), FALSE, None, Some(ErrTooLarge))
    ELSE IF reply.status > 400
    THEN Returned(reply, BLen(r.body), FALSE, None,
                  Some(ErrHTTP(reply.status, r.body)))
    ELSE ReceiveDecoded(reply, r.body, Unmarshal(Response, r.body))

\* doRequest testing the status before the size of the body.
ReceiveBodyStatusFirst(reply, r) ==
    IF r.err # None
    THEN Returned(reply, BLen(r.body), FALSE, None,
                  Some(Wrap(S(<<"g", "e", "m", "i", "n", "i", ":", " ",
                                "r", "e", "a", "d", " ", "r", "e", "s",
                                "p", "o", "n", "s", "e", ":", " ">>), r.err[1])))
    ELSE IF reply.status >= 400
    THEN Returned(reply, BLen(r.body), FALSE, None,
                  Some(ErrHTTP(reply.status, r.body)))
    ELSE IF BLen(r.body) > maxResponseBytes
    THEN Returned(reply, BLen(r.body), FALSE, None, Some(ErrTooLarge))
    ELSE ReceiveDecoded(reply, r.body, Unmarshal(Response, r.body))

\* doRequest taking every status but 200 for an error.
ReceiveBodyOnly200(reply, r) ==
    IF r.err # None
    THEN Returned(reply, BLen(r.body), FALSE, None,
                  Some(Wrap(S(<<"g", "e", "m", "i", "n", "i", ":", " ",
                                "r", "e", "a", "d", " ", "r", "e", "s",
                                "p", "o", "n", "s", "e", ":", " ">>), r.err[1])))
    ELSE IF BLen(r.body) > maxResponseBytes
    THEN Returned(reply, BLen(r.body), FALSE, None, Some(ErrTooLarge))
    ELSE IF reply.status # 200
    THEN Returned(reply, BLen(r.body), FALSE, None,
                  Some(ErrHTTP(reply.status, r.body)))
    ELSE ReceiveDecoded(reply, r.body, Unmarshal(Response, r.body))

\* doRequest after io.ReadAll returned r.
ReceiveBody(reply, r) ==
    IF r.err # None
    THEN Returned(reply, BLen(r.body), FALSE, None,
                  Some(Wrap(S(<<"g", "e", "m", "i", "n", "i", ":", " ",
                                "r", "e", "a", "d", " ", "r", "e", "s",
                                "p", "o", "n", "s", "e", ":", " ">>), r.err[1])))
    ELSE IF BLen(r.body) > maxResponseBytes
    THEN Returned(reply, BLen(r.body), FALSE, None, Some(ErrTooLarge))
    ELSE IF reply.status >= 400
    THEN Returned(reply, BLen(r.body), FALSE, None,
                  Some(ErrHTTP(reply.status, r.body)))
    ELSE ReceiveDecoded(reply, r.body, Unmarshal(Response, r.body))

\* doRequest calling c.doer.Do a second time when the first call fails.
doRequestReceiveRetrying(reply) ==
    IF reply.err # None
    THEN [Returned(reply, 0, FALSE, None,
                   Some(Wrap(S(<<"g", "e", "m", "i", "n", "i", ":", " ",
                                 "d", "o", " ", "r", "e", "q", "u", "e",
                                 "s", "t", ":", " ">>), reply.err[1])))
            EXCEPT !.doCount = 2]
    ELSE ReceiveBody(reply, ReadAllLimited(reply, maxResponseBytes + 1))

\* doRequest formatting the executor's error with %v: its text without
\* the error itself.
doRequestReceiveUnwrapped(reply) ==
    IF reply.err # None
    THEN Returned(reply, 0, FALSE, None,
                  Some(NewError(Cat(S(<<"g", "e", "m", "i", "n", "i", ":",
                                        " ", "d", "o", " ", "r", "e", "q",
                                        "u", "e", "s", "t", ":", " ">>),
                                    reply.err[1].text))))
    ELSE ReceiveBody(reply, ReadAllLimited(reply, maxResponseBytes + 1))

\* doRequest returning an error of its own for the executor's, and
\* reading the response that came with it.
doRequestReceiveOpaque(reply) ==
    IF reply.err # None
    THEN Returned(reply, BLen(reply.body), FALSE, None,
                  Some(NewError(S(<<"g", "e", "m", "i", "n", "i", ":", " ",
                                    "d", "o", " ", "r", "e", "q", "u", "e",
                                    "s", "t", " ", "f", "a", "i", "l", "e",
                                    "d">>))))
    ELSE ReceiveBody(reply, ReadAllLimited(reply, maxResponseBytes + 1))

\* doRequest and Generate from the return of c.doer.Do on: the frame the
\* call ends in.
doRequestReceive(reply) ==
    IF reply.err # None
    THEN Returned(reply, 0, FALSE, None,
                  Some(Wrap(S(<<"g", "e", "m", "i", "n", "i", ":", " ",
                                "d", "o", " ", "r", "e", "q", "u", "e",
                                "s", "t", ":", " ">>), reply.err[1])))
    ELSE ReceiveBody(reply, ReadAllLimited(reply, maxResponseBytes + 1))

(***************************************************************************)
(* The inputs the program is run on                                        *)
(***************************************************************************)

\* The longest option list given to New, and to Generate, and the most
\* calls of req.GetBody for one request.
MaxOpts == 2
MaxGenOpts == 2
MaxReplays == 2
\* The most parts of a candidate of a Response whose Text is taken.
MaxParts == 2

\* All lists of at most n members of set.
ListsUpTo(set, n) == UNION {[1..len -> set] : len \in 0..n}

Keys == {<<>>, S(<<" ">>), S(<<" ", "\t", " ">>), S(<<" ", "Z", "q", " ">>)}
Options ==
    {WithModel(<<>>), WithModel(S(<<"a", "/", "b">>)), WithModel(S(<<"a", " ", "b">>)),
     WithModel(S(<<"a", "\n", "b">>)), WithDoer(CallerDoer), WithDoer(NilDoer),
     WithBaseURL(S(<<"h", "t", "t", "p", "s", ":", "/", "/", "h">>)), WithBaseURL(S(<<"h", "t", "t", "p", ":",
                                                 "/", "/", "h">>))}
Prompts == {<<>>, S(<<"H", "i">>), S(<<" ", "\t", "\"", "a", "\\", "b", "\"", "\n",
                              "<", "i", ">", " ", "&", " ", "\r">>)}
GenerateOptions ==
    {WithMaxTokens(-1), WithMaxTokens(0), WithMaxTokens(16),
     WithTemperature(Fin(-5)), WithTemperature(Fin(0)), WithTemperature(NaN),
     WithGoogleSearch}

\* Responses a server sends, and the bodies that carry them.
Hello == S(<<" ", "H", "i", ",", " ", "\"", "y", "o", "u", "\"", " ", "<",
             "\n">>)
FullResponse ==
    [Candidates |->
        Slice(<<[Content |-> [Parts |-> Slice(<<[Text |-> Hello],
                                                [Text |-> S(<<"!">>)]>>),
                              Role |-> S(<<"m", "o", "d", "e", "l">>)],
                 FinishReason |-> S(<<"S", "T", "O", "P">>),
                 SafetyRatings |->
                    Slice(<<[Category |-> S(<<"C">>), Probability |-> S(<<"L",
                                                                     "O",
                                                                     "W">>)]>>)]>>),
     UsageMetadata |-> [PromptTokenCount |-> 5, CandidatesTokenCount |-> 10,
                        TotalTokenCount |-> 15]]
BriefResponse ==
    [Candidates |->
        Slice(<<[Content |-> [Parts |-> Slice(<<[Text |-> S(<<"H", "i">>)]>>),
                              Role |-> <<>>],
                 FinishReason |-> <<>>,
                 SafetyRatings |-> NilSlice]>>),
     UsageMetadata |-> [PromptTokenCount |-> 0, CandidatesTokenCount |-> 0,
                        TotalTokenCount |-> 7]]
BriefBody ==
    S(<<"{", "\"", "c", "a", "n", "d", "i", "d", "a", "t", "e", "s", "\"",
        ":", " ", "[", "{", "\"", "c", "o", "n", "t", "e", "n", "t", "\"",
        ":", " ", "{", "\"", "p", "a", "r", "t", "s", "\"", ":", " ", "[",
        "{", "\"", "t", "e", "x", "t", "\"", ":", " ", "\"", "H", "i",
        "\"", "}", "]", "}", "}", "]", ",", "\n", " ", "\"", "u", "s", "a",
        "g", "e", "M", "e", "t", "a", "d", "a", "t", "a", "\"", ":", " ",
        "{", "\"", "t", "o", "t", "a", "l", "T", "o", "k", "e", "n", "C",
        "o", "u", "n", "t", "\"", ":", " ", "7", "}", "}">>)
Document(body, resp) == [body |-> body, resp |-> resp]
\* s with white space after it up to n bytes in all.
PadTo(s, n) == Cat(s, Repeat(" ", n - BLen(s)))
\* The well-formed Response bodies of the sample, each with the Response
\* the server wrote into it.
Documents ==
    {Document(Marshal(Response, FullResponse).data, FullResponse),
     Document(BriefBody, BriefResponse),
     Document(S(<<"{", "}">>), Zero(Response)),
     Document(PadTo(BriefBody, maxResponseBytes), BriefResponse),
     Document(PadTo(BriefBody, maxResponseBytes + 1), BriefResponse)}
\* Bodies that are empty or not well-formed JSON.
Malformed ==
    {<<>>, S(<<"{", "\"", "c", "a", "n", "d", "i", "d", "a", "t", "e", "s",
               "\"", ":", " ", "[">>), S(<<"n", "o", "t", " ", "j", "s", "o",
                                     "n">>), Repeat("x", maxResponseBytes),
     Repeat("x", maxResponseBytes + 1)}
\* Error pages, and JSON that is not a Response.
Pages ==
    {S(<<"{", "\"", "e", "r", "r", "o", "r", "\"", ":", " ", "\"", "b",
         "a", "d", "\"", "}">>), S(<<"[", "]">>), Repeat("E", maxErrorBodyBytes),
     Repeat("E", 2000), Repeat(".", maxErrorBodyBytes + 1),
     Cat(Repeat(" ", maxErrorBodyBytes + 1), S(<<".", ".", ".", "(", "t",
                                                 "r", "u", "n", "c", "a",
                                                 "t", "e", "d", ")">>))}
Bodies == {d.body : d \in Documents} \cup Malformed \cup Pages
Statuses == {200, 399, 400, 500}
\* An informational status, one without content, a redirection.
OtherStatuses == {100, 204, 301}
ErrDial == NewError(S(<<"d", "i", "a", "l", " ", "t", "c", "p", ":", " ",
                        "i", "/", "o", " ", "t", "i", "m", "e", "o", "u",
                        "t">>))
\* The error an *http.Client returns, together with the response, when it
\* does not follow a redirect.
ErrRedirect == NewError(S(<<"P", "o", "s", "t", " ", "\"", "h", "t", "t",
                            "p", "s", ":", "/", "/", "h", "\"", ":", " ",
                            "s", "t", "o", "p", "p", "e", "d", " ", "a",
                            "f", "t", "e", "r", " ", "1", "0", " ", "r",
                            "e", "d", "i", "r", "e", "c", "t", "s">>))
\* An executor error and an error page that repeat the API key sent.
ErrEcho == NewError(S(<<"p", "r", "o", "x", "y", ":", " ", "x", "-", "g",
                        "o", "o", "g", "-", "a", "p", "i", "-", "k", "e",
                        "y", " ", " ", "Z", "q", " ", " ", "r", "e", "f",
                        "u", "s", "e", "d">>))
EchoPage == S(<<"{", "\"", "e", "r", "r", "o", "r", "\"", ":", " ", "\"",
                "A", "P", "I", " ", "k", "e", "y", " ", " ", "Z", "q", " ",
                " ", "n", "o", "t", " ", "v", "a", "l", "i", "d", "\"",
                "}">>)
Replies ==
    {Reply(Some(ErrDial), 0, <<>>, None), Reply(Some(ErrEcho), 0, <<>>, None),
     Reply(Some(ErrRedirect), 302, BriefBody, None),
     Reply(None, 401, EchoPage, None)}
      \cup {Reply(None, st, b, None) : st \in Statuses, b \in Bodies}
      \cup {Reply(None, st, b, None) :
               st \in OtherStatuses,
               b \in {BriefBody, <<>>, PadTo(BriefBody, maxResponseBytes + 1)}}
      \cup {Reply(None, 200, BriefBody, Some(n)) : n \in {0, BLen(BriefBody)}}
      \cup {Reply(None, 500, Repeat("x", maxResponseBytes + 1 + extra),
                  Some(maxResponseBytes + extra)) : extra \in {0, 1}}

(***************************************************************************)
(* The program: a caller that constructs a Client with New and then calls  *)
(* Generate on it, and the executor that answers.                          *)
(***************************************************************************)

\* The goroutines that call Generate.
Callers == {1}
\* The contexts the callers pass.
Contexts == {Background}

VARIABLES
    newArgs,    \* the arguments of a call of New that has not run yet
    client,     \* the *Client New returned
    newErr,     \* the error New returned
    calls,      \* the frame of each caller's call of Generate
    cancelled,  \* the contexts whose cancel function has been called
    replays,    \* per call, the readers req.GetBody has returned
    response,   \* a *Response a caller holds
    text,       \* what response.Text() returned
    request,    \* a Request a caller holds
    jsonData,   \* what json.Marshal returned for request
    restored,   \* what json.Unmarshal made of jsonData
    cli         \* a run of the command-line program

typeVars == <<response, text, request, jsonData, restored, cli>>
vars == <<newArgs, client, newErr, calls, cancelled, replays, typeVars>>

\* No caller holds a Response or a Request of its own making.
NoValues ==
    /\ response = None
    /\ text = None
    /\ request = None
    /\ jsonData = None
    /\ restored = None
    /\ cli = None

\* No Client is made, no call of Generate is under way by any of the
\* goroutines in callers.
NoClient(callers) ==
    /\ newArgs = None
    /\ client = None
    /\ newErr = None
    /\ calls = [i \in callers |-> Idle]
    /\ cancelled = {}
    /\ replays = [i \in callers |-> <<>>]

Init == NoClient(Callers) /\ NoValues

\* The caller calls New(apiKey, opts...).
CallNew(apiKey, opts) ==
    /\ client = None
    /\ newArgs = None
    /\ newArgs' = Some([apiKey |-> apiKey, opts |-> opts])
    /\ newErr' = None
    /\ UNCHANGED <<client, calls, cancelled, replays, typeVars>>

\* New runs and returns.
RunNew ==
    /\ newArgs # None
    /\ LET r == New(newArgs[1].apiKey, newArgs[1].opts)
       IN /\ client' = r.client
          /\ newErr' = r.err
    /\ newArgs' = None
    /\ UNCHANGED <<calls, cancelled, replays, typeVars>>

\* Caller i calls c.Generate(ctx, prompt, opts...).
CallGenerate(i, ctx, prompt, opts) ==
    /\ client # None
    /\ calls[i].pc = "idle"
    /\ calls' = [calls EXCEPT ![i] = Called(ctx, prompt, opts)]
    /\ UNCHANGED <<newArgs, client, newErr, cancelled, replays, typeVars>>

\* Generate building its request from arguments kept in a field of the
\* Client that every call writes: the call that runs reads what the first
\* of the calls not yet run has written.
RunGenerateShared(i) ==
    /\ calls[i].pc = "called"
    /\ LET j == CHOOSE j \in DOMAIN calls :
                   /\ calls[j].pc = "called"
                   /\ \A k \in DOMAIN calls : calls[k].pc = "called" => j <= k
       IN calls' = [calls EXCEPT ![i] =
                      GenerateSend(client[1], calls[i].args[1].ctx,
                                   calls[j].args[1].prompt,
                                   calls[j].args[1].opts)]
    /\ UNCHANGED <<newArgs, client, newErr, cancelled, replays, typeVars>>

\* Generate runs until it returns an error or calls the executor.
RunGenerate(i) ==
    /\ calls[i].pc = "called"
    /\ calls' = [calls EXCEPT ![i] =
                   GenerateSend(client[1], calls[i].args[1].ctx,
                                calls[i].args[1].prompt, calls[i].args[1].opts)]
    /\ UNCHANGED <<newArgs, client, newErr, cancelled, replays, typeVars>>

\* A caller calls the cancel function of ctx.
Cancel(ctx) ==
    /\ ctx \notin cancelled
    /\ cancelled' = cancelled \cup {ctx}
    /\ UNCHANGED <<newArgs, client, newErr, calls, replays, typeVars>>

\* The executor reads up to n bytes of req.Body.
ReadBody(i, n) ==
    /\ calls[i].pc = "inflight"
    /\ calls[i].req[1].Body.off < BLen(calls[i].req[1].Body.data)
    /\ calls' = [calls EXCEPT ![i].req[1].Body =
                   ReadBytes(calls[i].req[1].Body, n).reader]
    /\ UNCHANGED <<newArgs, client, newErr, cancelled, replays, typeVars>>

\* The executor, or a retry layer in it, calls req.GetBody().
GetBody(i) ==
    /\ calls[i].pc = "inflight"
    /\ Len(replays[i]) < MaxReplays
    /\ replays' = [replays EXCEPT ![i] =
                     Append(replays[i], GetBodyReader(calls[i].req[1]))]
    /\ UNCHANGED <<newArgs, client, newErr, calls, cancelled, typeVars>>

\* The executor reads up to n bytes of the k-th reader GetBody returned.
ReadReplay(i, k, n) ==
    /\ calls[i].pc = "inflight"
    /\ k \in 1..Len(replays[i])
    /\ replays[i][k].off < BLen(replays[i][k].data)
    /\ replays' = [replays EXCEPT ![i][k] = ReadBytes(replays[i][k], n).reader]
    /\ UNCHANGED <<newArgs, client, newErr, calls, cancelled, typeVars>>

\* doRequest clearing the Client's key when the executor's response says
\* the key is not accepted.
DoerReturnsForgetting(i, reply) ==
    /\ calls[i].pc = "inflight"
    /\ (reply.err # None /\ ErrorsIs(reply.err[1], Canceled))
          => calls[i].req[1].ctx \in cancelled
    /\ calls' = [calls EXCEPT ![i] = doRequestReceive(reply)]
    /\ replays' = [replays EXCEPT ![i] = <<>>]
    /\ client' = IF reply.err = None /\ reply.status = 401
                 THEN Some([client[1] EXCEPT !.apiKey = <<>>])
                 ELSE client
    /\ UNCHANGED <<newArgs, newErr, cancelled, typeVars>>

\* The executor returns, and Generate runs until it returns.  Only for a
\* cancelled context does the executor return the context's error.
DoerReturns(i, reply) ==
    /\ calls[i].pc = "inflight"
    /\ (reply.err # None /\ ErrorsIs(reply.err[1], Canceled))
          => calls[i].req[1].ctx \in cancelled
    /\ calls' = [calls EXCEPT ![i] = doRequestReceive(reply)]
    /\ replays' = [replays EXCEPT ![i] = <<>>]
    /\ UNCHANGED <<newArgs, client, newErr, cancelled, typeVars>>

\* The caller is done with what Generate returned.
Release(i) ==
    /\ calls[i].pc = "done"
    /\ calls' = [calls EXCEPT ![i] = Idle]
    /\ UNCHANGED <<newArgs, client, newErr, cancelled, replays, typeVars>>

Next ==
    \/ \E apiKey \in Keys, opts \in ListsUpTo(Options, MaxOpts) :
          CallNew(apiKey, opts)
    \/ RunNew
    \/ \E i \in Callers :
          \/ \E ctx \in Contexts, prompt \in Prompts,
                opts \in ListsUpTo(GenerateOptions, MaxGenOpts) :
                CallGenerate(i, ctx, prompt, opts)
          \/ RunGenerate(i)
          \/ \E reply \in Replies : DoerReturns(i, reply)
          \/ Release(i)

Spec == Init /\ [][Next]_vars

(***************************************************************************)
(* A caller that holds a Response and calls Text on it                     *)
(***************************************************************************)

\* The texts of the parts, the part slices and the candidates of the
\* Responses Text is called on.
PartTexts == {<<>>, S(<<"a">>), S(<<"b", "a">>)}
PartSlices ==
    {NilSlice}
      \cup {Slice([i \in 1..Len(ts) |-> [Text |-> ts[i]]]) :
              ts \in ListsUpTo(PartTexts, MaxParts)}
CandidateOf(parts) ==
    [Content |-> [Parts |-> parts, Role |-> S(<<"m", "o", "d", "e", "l">>)],
     FinishReason |-> S(<<"S", "T", "O", "P">>), SafetyRatings |-> NilSlice]
ResponseOf(candidates) ==
    [Candidates |-> candidates, UsageMetadata |-> Zero(UsageMetadata)]
Responses ==
    {ResponseOf(NilSlice), ResponseOf(Slice(<<>>))}
      \cup {ResponseOf(Slice(<<CandidateOf(ps)>>)) : ps \in PartSlices}
      \cup {ResponseOf(Slice(<<CandidateOf(ps), CandidateOf(qs)>>)) :
              ps \in PartSlices, qs \in PartSlices}

InitText ==
    /\ NoClient(Callers)
    /\ response \in {Some(r) : r \in Responses}
    /\ text = None
    /\ request = None
    /\ jsonData = None
    /\ restored = None
    /\ cli = None

\* The caller calls response.Text().
CallText ==
    /\ response # None
    /\ text = None
    /\ text' = Some(Text(response[1]))
    /\ UNCHANGED <<newArgs, client, newErr, calls, cancelled, replays,
                   response, request, jsonData, restored, cli>>

NextText == CallText

SpecText == InitText /\ [][NextText]_vars

(***************************************************************************)
(* Two goroutines that call Generate on one Client, with contexts of their *)
(* own that they cancel, and an executor safe for concurrent use           *)
(***************************************************************************)

Goroutines == {1, 2}
\* A context made with context.WithCancel.
WithCancel == "WithCancel"
ConcurrentContexts == {Background, WithCancel, NilContext}
ConcurrentPrompts == {S(<<"A">>), S(<<"B">>)}
ConcurrentOptions == {<<>>, <<WithMaxTokens(16), WithTemperature(Fin(0))>>}
\* The *url.Error an *http.Client returns for a cancelled request.
ErrPostCanceled == Wrap(S(<<"P", "o", "s", "t", " ", "\"", "h", "t", "t",
                            "p", "s", ":", "/", "/", "h", "\"", ":", " ">>), Canceled)
ConcurrentReplies ==
    {Reply(Some(Canceled), 0, <<>>, None),
     Reply(Some(ErrPostCanceled), 0, <<>>, None),
     Reply(Some(ErrDial), 0, <<>>, None),
     Reply(None, 200, BriefBody, None),
     Reply(None, 200, Marshal(Response, FullResponse).data, None),
     Reply(None, 500, S(<<"{", "\"", "e", "r", "r", "o", "r", "\"", ":",
                          " ", "\"", "b", "a", "d", "\"", "}">>), None)}

InitConcurrent == NoClient(Goroutines) /\ NoValues

NextConcurrent ==
    \/ CallNew(S(<<" ", "Z", "q", " ">>), <<WithDoer(CallerDoer)>>)
    \/ RunNew
    \/ Cancel(WithCancel)
    \/ \E i \in Goroutines :
          \/ \E ctx \in ConcurrentContexts, prompt \in ConcurrentPrompts,
                opts \in ConcurrentOptions :
                CallGenerate(i, ctx, prompt, opts)
          \/ RunGenerate(i)
          \/ \E reply \in ConcurrentReplies : DoerReturns(i, reply)
          \/ Release(i)

SpecConcurrent == InitConcurrent /\ [][NextConcurrent]_vars

(***************************************************************************)
(* An executor with a retry layer that reads the body of the request it    *)
(* holds and replays it with req.GetBody                                   *)
(***************************************************************************)

\* The sizes of the buffers the executor reads into.
ReadSizes == {40, 512}
ReplayOptions == {<<>>, <<WithGoogleSearch>>}
ReplayReplies == {Reply(Some(ErrDial), 0, <<>>, None),
                  Reply(None, 200, BriefBody, None)}

NextReplay ==
    \/ CallNew(S(<<" ", "Z", "q", " ">>), <<WithDoer(CallerDoer)>>)
    \/ RunNew
    \/ \E i \in Callers :
          \/ \E prompt \in Prompts, opts \in ReplayOptions :
                CallGenerate(i, Background, prompt, opts)
          \/ RunGenerate(i)
          \/ \E n \in ReadSizes : ReadBody(i, n)
          \/ GetBody(i)
          \/ \E k \in 1..MaxReplays, n \in ReadSizes : ReadReplay(i, k, n)
          \/ \E reply \in ReplayReplies : DoerReturns(i, reply)
          \/ Release(i)

SpecReplay == Init /\ [][NextReplay]_vars

(***************************************************************************)
(* A caller that serializes a Request of its own making with json.Marshal  *)
(* and deserializes the result with json.Unmarshal                         *)
(***************************************************************************)

\* The Requests: no contents, an empty list, one content of one part, two
\* contents; maxOutputTokens and temperature valid and not, the
\* temperature also absent or infinite; the tool list nil, empty, with
\* the search tool, with a tool that has no search.
RequestContents ==
    {NilSlice, Slice(<<>>)}
      \cup {Slice(<<[Parts |-> Slice(<<[Text |-> s]>>)]>>) : s \in Prompts}
      \cup {Slice(<<[Parts |-> Slice(<<[Text |-> S(<<"H", "i">>)], [Text |-> <<>>]>>)],
                    [Parts |-> NilSlice]>>)}
RequestTokens == {0, 1, 16, 32000}
RequestTemperatures ==
    {NilPtr, Ptr(Fin(-5)), Ptr(Fin(0)), Ptr(Fin(5)), Ptr(Fin(10)), Ptr(PosInf)}
RequestTools ==
    {NilSlice, Slice(<<>>), Slice(<<[GoogleSearch |-> Ptr(Zero(GoogleSearch))]>>),
     Slice(<<[GoogleSearch |-> NilPtr]>>)}
Requests ==
    {[Contents |-> cs,
      GenerationConfig |-> [MaxOutputTokens |-> n, Temperature |-> tp],
      Tools |-> ts] :
        cs \in RequestContents, n \in RequestTokens,
        tp \in RequestTemperatures, ts \in RequestTools}

InitRoundTrip ==
    /\ NoClient(Callers)
    /\ response = None
    /\ text = None
    /\ request \in {Some(r) : r \in Requests}
    /\ jsonData = None
    /\ restored = None
    /\ cli = None

\* The caller calls json.Marshal(request).
CallMarshal ==
    /\ request # None
    /\ jsonData = None
    /\ jsonData' = Some(Marshal(Request, request[1]))
    /\ UNCHANGED <<newArgs, client, newErr, calls, cancelled, replays,
                   response, text, request, restored, cli>>

\* The caller calls json.Unmarshal(jsonData, &restored) on the bytes
\* json.Marshal returned.
CallUnmarshal ==
    /\ jsonData # None
    /\ jsonData[1].ok
    /\ restored = None
    /\ restored' = Some(Unmarshal(Request, jsonData[1].data))
    /\ UNCHANGED <<newArgs, client, newErr, calls, cancelled, replays,
                   response, text, request, jsonData, cli>>

NextRoundTrip == CallMarshal \/ CallUnmarshal

SpecRoundTrip == InitRoundTrip /\ [][NextRoundTrip]_vars

(***************************************************************************)
(* cmd/gemini/main.go: the command-line program                            *)
(***************************************************************************)

RECURSIVE WriteIndented(_, _), WriteIndentedElems(_, _),
          WriteIndentedMembers(_, _)
\* json.Indent's new line at a depth, with prefix "" and indent "  "
NewLine(depth) == Cat(S(<<"\n">>), Repeat(" ", 2 * depth))
\* The text json.MarshalIndent(v, "", "  ") writes for a value at a depth:
\* an empty array or object stays on one line.
WriteIndented(v, depth) ==
    CASE v.t = "arr" /\ v.e # <<>> ->
           Cat(S(<<"[">>),
               Cat(NewLine(depth + 1),
                   Cat(WriteIndentedElems(v.e, depth + 1),
                       Cat(NewLine(depth), S(<<"]">>)))))
      [] v.t = "obj" /\ v.kv # <<>> ->
           Cat(S(<<"{">>),
               Cat(NewLine(depth + 1),
                   Cat(WriteIndentedMembers(v.kv, depth + 1),
                       Cat(NewLine(depth), S(<<"}">>)))))
      [] OTHER -> WriteValue(v)

WriteIndentedElems(e, depth) ==
    IF Len(e) = 1 THEN WriteIndented(e[1], depth)
    ELSE Cat(WriteIndented(e[1], depth),
             Cat(S(<<",">>),
                 Cat(NewLine(depth), WriteIndentedElems(Tail(e), depth))))

WriteIndentedMembers(kv, depth) ==
    Cat(QuoteJSON(kv[1].k),
        Cat(S(<<":", " ">>),
            Cat(WriteIndented(kv[1].v, depth),
                IF Len(kv) = 1 THEN <<>>
                ELSE Cat(S(<<",">>),
                         Cat(NewLine(depth),
                             WriteIndentedMembers(Tail(kv), depth))))))

\* json.MarshalIndent(v, "", "  ")
MarshalIndent(ty, v) ==
    IF Encodable(ty, v)
    THEN [ok |-> TRUE, data |-> WriteIndented(Encode(ty, v), 0), why |-> <<>>]
    ELSE [ok |-> FALSE, data |-> <<>>, why |-> Unsupported(ty, v)]

\* Durations are counted in units of 500 ms.
Millis500 == 1
Second == 2 * Millis500

\* The defaults of the Config fields (the key has none: it is required).
ConfigModel == defaultModel
ConfigMaxTokens == 32000
ConfigTemperature == Fin(10)
ConfigTimeout == 30 * Second
ConfigGoogleSearch == TRUE
ConfigLogLevel == "error"

\* The environment of a run: each variable is unset (None) or set.
Env(apiKey, maxTokens, timeout, googleSearch, logLevel) ==
    [GEMINI_API_KEY |-> apiKey, GEMINI_MODEL |-> None,
     GEMINI_MAX_TOKENS |-> maxTokens, GEMINI_TEMPERATURE |-> None,
     GEMINI_TIMEOUT |-> timeout, GEMINI_GOOGLE_SEARCH |-> googleSearch,
     LOG_LEVEL |-> logLevel]

\* The value of a variable, or the default of its field when it is unset.
OrDefault(v, default) == IF v = None THEN default ELSE v[1]

nameAPIKey == S(<<"G", "E", "M", "I", "N", "I", "_", "A", "P", "I", "_",
                  "K", "E", "Y">>)

\* MustLoad taking a required variable that is set to the empty string
\* for present.
MustLoadUnsetOnly(env) ==
    IF env.GEMINI_API_KEY = None
    THEN [ok |-> FALSE, cfg |-> None, why |-> nameAPIKey]
    ELSE [ok |-> TRUE,
          cfg |-> Some([APIKey |-> env.GEMINI_API_KEY[1],
                        Model |-> OrDefault(env.GEMINI_MODEL, ConfigModel),
                        MaxTokens |-> OrDefault(env.GEMINI_MAX_TOKENS,
                                                ConfigMaxTokens),
                        Temperature |-> OrDefault(env.GEMINI_TEMPERATURE,
                                                  ConfigTemperature),
                        Timeout |-> OrDefault(env.GEMINI_TIMEOUT,
                                              ConfigTimeout),
                        GoogleSearch |-> OrDefault(env.GEMINI_GOOGLE_SEARCH,
                                                   ConfigGoogleSearch),
                        LogLevel |-> OrDefault(env.LOG_LEVEL,
                                               ConfigLogLevel)]),
          why |-> <<>>]

\* chassisconfig.MustLoad[Config](): the Config it returns, or the panic
\* for the required variable that is unset or empty.
MustLoad(env) ==
    IF env.GEMINI_API_KEY = None \/ env.GEMINI_API_KEY[1] = <<>>
    THEN [ok |-> FALSE, cfg |-> None, why |-> nameAPIKey]
    ELSE [ok |-> TRUE,
          cfg |-> Some([APIKey |-> env.GEMINI_API_KEY[1],
                        Model |-> OrDefault(env.GEMINI_MODEL, ConfigModel),
                        MaxTokens |-> OrDefault(env.GEMINI_MAX_TOKENS,
                                                ConfigMaxTokens),
                        Temperature |-> OrDefault(env.GEMINI_TEMPERATURE,
                                                  ConfigTemperature),
                        Timeout |-> OrDefault(env.GEMINI_TIMEOUT,
                                              ConfigTimeout),
                        GoogleSearch |-> OrDefault(env.GEMINI_GOOGLE_SEARCH,
                                                   ConfigGoogleSearch),
                        LogLevel |-> OrDefault(env.LOG_LEVEL,
                                               ConfigLogLevel)]),
          why |-> <<>>]

\* What is written to standard error: by the runtime for a panic, by the
\* logger, or by main with fmt.
Line(by, bytes) == [by |-> by, text |-> bytes]

\* logger.Info and logger.Debug of a logger made with logz.New(level)
LogInfo(level, msg) ==
    IF level \in {"debug", "info"} THEN <<Line("logz", msg)>> ELSE <<>>
LogDebug(level, msg) ==
    IF level = "debug" THEN <<Line("logz", msg)>> ELSE <<>>

RECURSIVE Join(_, _)
\* strings.Join(elems, sep)
Join(elems, sep) ==
    IF elems = <<>> THEN <<>>
    ELSE IF Len(elems) = 1 THEN elems[1]
    ELSE Cat(elems[1], Cat(sep, Join(Tail(elems), sep)))

\* The retry layer main configures: call.WithRetry(3, 500*time.Millisecond)
RetryCount == 3
RetryBase == Millis500
Attempts == 1 + RetryCount
\* The gap after the attempt-th attempt: the base delay, doubled each time.
RECURSIVE Backoff(_)
Backoff(attempt) == IF attempt <= 1 THEN RetryBase ELSE 2 * Backoff(attempt - 1)
\* context.WithTimeout(context.Background(), cfg.Timeout*5)
DeadlineFactor == 5
WithTimeout == "WithTimeout"
DeadlineExceeded == NewError(S(<<"c", "o", "n", "t", "e", "x", "t", " ",
                                 "d", "e", "a", "d", "l", "i", "n", "e",
                                 " ", "e", "x", "c", "e", "e", "d", "e",
                                 "d">>))
\* An attempt that ran into call.WithTimeout(cfg.Timeout)
ErrAttemptTimeout ==
    NewError(S(<<"c", "o", "n", "t", "e", "x", "t", " ", "d", "e", "a",
                 "d", "l", "i", "n", "e", " ", "e", "x", "c", "e", "e",
                 "d", "e", "d", " ", "(", "C", "l", "i", "e", "n", "t",
                 ".", "T", "i", "m", "e", "o", "u", "t", " ", "e", "x",
                 "c", "e", "e", "d", "e", "d", " ", "w", "h", "i", "l",
                 "e", " ", "a", "w", "a", "i", "t", "i", "n", "g", " ",
                 "h", "e", "a", "d", "e", "r", "s", ")">>))

\* A run of the program: where it is, its environment and arguments
\* (os.Args[1:]), what it has written, its exit status, and for the call in
\* the retry layer the attempt under way, the time since the context was
\* made, the context's deadline and whether the deadline has cancelled it.
CLIRun(env, args) ==
    [pc |-> "start", env |-> env, args |-> args, stdout |-> <<>>,
     stderr |-> <<>>, exit |-> None, attempt |-> 0, now |-> 0,
     deadline |-> 0, expired |-> FALSE]

\* The run with lines written to standard error.
Stderr(run, lines) == [run EXCEPT !.stderr = @ \o lines]
\* os.Exit(status), or the runtime ending the process for a panic.
Exit(run, status) == [run EXCEPT !.pc = "exited", !.exit = Some(status)]

usage == S(<<"u", "s", "a", "g", "e", ":", " ", "g", "e", "m", "i", "n",
             "i", " ", "<", "p", "r", "o", "m", "p", "t", ">">>)
\* fmt.Fprintf(os.Stderr, "error: %v\n", err)
ErrorLine(err) == Line("fmt", Cat(S(<<"e", "r", "r", "o", "r", ":", " ">>), Cat(err.text, S(<<"\n">>))))

\* main exiting with status 0 after it has reported Generate's error.
mainReturnedZero(run, f) ==
    IF f.err # None THEN Exit(Stderr(run, <<ErrorLine(f.err[1])>>), 0)
    ELSE Exit([run EXCEPT !.stdout =
                 Cat(MarshalIndent(Response, f.resp[1]).data, S(<<"\n">>))], 0)

\* main from the return of client.Generate on.
mainReturned(run, f) ==
    IF f.err # None THEN Exit(Stderr(run, <<ErrorLine(f.err[1])>>), 1)
    ELSE LET out == MarshalIndent(Response, f.resp[1])
         IN IF ~out.ok
            THEN Exit(Stderr(run,
                             <<Line("fmt",
                                    Cat(S(<<"e", "r", "r", "o", "r", " ",
                                            "f", "o", "r", "m", "a", "t",
                                            "t", "i", "n", "g", " ", "r",
                                            "e", "s", "p", "o", "n", "s",
                                            "e", ":", " ">>),
                                        Cat(ErrMarshal(out.why).text,
                                            S(<<"\n">>))))>>), 1)
            ELSE Exit([run EXCEPT !.stdout = Cat(out.data, S(<<"\n">>))], 0)

\* The options main passes to Generate.
genOpts(cfg) ==
    <<WithMaxTokens(cfg.MaxTokens), WithTemperature(cfg.Temperature)>>
      \o (IF cfg.GoogleSearch THEN <<WithGoogleSearch>> ELSE <<>>)

\* main from gemini.New on, for the Config cfg and the prompt: the run, the
\* Client and error New returned, and the frame of the call of Generate.
mainCall(run, cfg, prompt) ==
    LET n == New(cfg.APIKey, <<WithModel(cfg.Model), WithDoer(CallerDoer)>>)
        f == GenerateSend(n.client[1], WithTimeout, prompt, genOpts(cfg))
    IN IF n.err # None
       THEN [run |-> Exit(Stderr(run, <<ErrorLine(n.err[1])>>), 1),
             client |-> None, newErr |-> n.err, call |-> Idle]
       ELSE IF f.pc = "inflight"
       THEN [run |-> [run EXCEPT !.pc = "attempt", !.attempt = 1,
                                 !.deadline = DeadlineFactor * cfg.Timeout],
             client |-> n.client, newErr |-> None, call |-> f]
       ELSE [run |-> mainReturned(run, f),
             client |-> n.client, newErr |-> None, call |-> f]

\* main from its start: up to its exit, or to the call of the executor.
mainStart(run) ==
    LET l == MustLoad(run.env)
        cfg == l.cfg[1]
        started == Stderr(run, LogInfo(cfg.LogLevel, "starting"))
    IN IF ~l.ok
       THEN [run |-> Exit(Stderr(run, <<Line("panic", l.why)>>), 2),
             client |-> None, newErr |-> None, call |-> Idle]
       ELSE IF Len(run.args) + 1 < 2
       THEN [run |-> Exit(Stderr(started,
                                 <<Line("fmt", Cat(usage, S(<<"\n">>)))>>), 1),
             client |-> None, newErr |-> None, call |-> Idle]
       ELSE mainCall(Stderr(started, LogDebug(cfg.LogLevel, "request config")),
                     cfg, Join(run.args, S(<<" ">>)))

\* The environments and argument lists of the sample.
CLIKeys == {None, Some(<<>>), Some(S(<<" ">>)), Some(S(<<"Z", "q">>))}
CLITokens == {None, Some(0)}
CLITimeouts == {None, Some(1 * Second)}
CLISearch == {None, Some(FALSE)}
CLILogLevels == {None, Some("debug")}
Environments ==
    {Env(k, n, t, g, l) : k \in CLIKeys, n \in CLITokens, t \in CLITimeouts,
                          g \in CLISearch, l \in CLILogLevels}
Arguments == {<<>>, <<S(<<"H", "i">>)>>, <<S(<<"a">>), S(<<"b", " ">>)>>}
\* What one attempt of the retry layer can end with.
CLIReplies ==
    {Reply(Some(ErrDial), 0, <<>>, None),
     Reply(None, 200, BriefBody, None),
     Reply(None, 200, Marshal(Response, FullResponse).data, None),
     Reply(None, 200, S(<<"n", "o", "t", " ", "j", "s", "o", "n">>), None),
     Reply(None, 400, S(<<"{", "\"", "e", "r", "r", "o", "r", "\"", ":",
                          " ", "\"", "b", "a", "d", "\"", "}">>), None),
     Reply(None, 503, S(<<"{", "\"", "e", "r", "r", "o", "r", "\"", ":",
                          " ", "\"", "b", "a", "d", "\"", "}">>), None)}

\* A run starts with no Client made.
InitCLI ==
    /\ NoClient(Callers)
    /\ response = None
    /\ text = None
    /\ request = None
    /\ jsonData = None
    /\ restored = None
    /\ \E env \in Environments, args \in Arguments : cli = Some(CLIRun(env, args))

\* main runs until it exits or Generate has called the executor.
MainStarts ==
    /\ cli # None
    /\ cli[1].pc = "start"
    /\ LET r == mainStart(cli[1])
       IN /\ cli' = Some(r.run)
          /\ client' = r.client
          /\ newErr' = r.newErr
          /\ calls' = [calls EXCEPT ![1] = r.call]
    /\ UNCHANGED <<newArgs, cancelled, replays, response, text, request,
                   jsonData, restored>>

\* The executor returns reply to Generate, which returns to main, which
\* runs to its exit.
DoReturns(run, reply) ==
    /\ calls' = [calls EXCEPT ![1] = doRequestReceive(reply)]
    /\ cli' = Some(mainReturned(run, doRequestReceive(reply)))
    /\ UNCHANGED <<newArgs, client, newErr, cancelled, replays, response,
                   text, request, jsonData, restored>>

\* The context's deadline passes while the retry layer has the request:
\* the executor returns the context's error.
DeadlinePasses(run) ==
    DoReturns([run EXCEPT !.now = run.deadline, !.expired = TRUE],
              Reply(Some(DeadlineExceeded), 0, <<>>, None))

\* The retry layer retries after an error and after a 5xx status.
Retryable(reply) == reply.err # None \/ reply.status >= 500

\* An attempt of the retry layer ends after d units with reply, or with
\* the attempt's timeout.  After the last attempt, and after an attempt
\* that is not to be retried, the executor returns.
AttemptEnds(d, reply) ==
    /\ cli # None
    /\ cli[1].pc = "attempt"
    /\ LET run == cli[1]
           T == MustLoad(run.env).cfg[1].Timeout
           ended == [run EXCEPT !.now = @ + d]
       IN /\ d <= T
          /\ (d = T) = (reply = Reply(Some(ErrAttemptTimeout), 0, <<>>, None))
          /\ IF run.now + d > run.deadline THEN DeadlinePasses(run)
             ELSE IF Retryable(reply) /\ run.attempt < Attempts
             THEN /\ cli' = Some([ended EXCEPT !.pc = "backoff"])
                  /\ UNCHANGED <<newArgs, client, newErr, calls, cancelled,
                                 replays, response, text, request, jsonData,
                                 restored>>
             ELSE DoReturns(ended, reply)

\* The gap before the next attempt ends.
BackoffEnds ==
    /\ cli # None
    /\ cli[1].pc = "backoff"
    /\ LET run == cli[1]
       IN IF run.now + Backoff(run.attempt) > run.deadline
          THEN DeadlinePasses(run)
          ELSE /\ cli' = Some([run EXCEPT !.pc = "attempt",
                                          !.attempt = @ + 1,
                                          !.now = @ + Backoff(run.attempt)])
               /\ UNCHANGED <<newArgs, client, newErr, calls, cancelled,
                              replays, response, text, request, jsonData,
                              restored>>

\* How long an attempt of the sample takes, in units.
AttemptTimes == {1, 1 * Second, ConfigTimeout}

NextCLI ==
    \/ MainStarts
    \/ \E d \in AttemptTimes :
          \E reply \in CLIReplies \cup {Reply(Some(ErrAttemptTimeout), 0, <<>>,
                                              None)} :
             AttemptEnds(d, reply)
    \/ BackoffEnds

SpecCLI == InitCLI /\ [][NextCLI]_vars

(***************************************************************************)
(* What the properties speak of                                            *)
(***************************************************************************)

\* White space only, or empty.
Blank(s) == \A i \in 1..Len(s) : s[i].c \in {" ", "\t", "\n", "\r", "\f"}
\* What the last option of opts that sets field sets it to; otherwise
\* what it is by default.
Resolved(opts, field, default) ==
    IF \E i \in 1..Len(opts) : opts[i].set = field
    THEN opts[CHOOSE i \in 1..Len(opts) :
                 /\ opts[i].set = field
                 /\ \A j \in (i + 1)..Len(opts) : opts[j].set # field].to
    ELSE default
UsesHTTPS(url) == HasPrefix(url, S(<<"h", "t", "t", "p", "s", ":", "/",
                                     "/">>))
\* The errors by their messages.
IsEmptyKeyError(e) == e.text = S(<<"g", "e", "m", "i", "n", "i", ":", " ",
                                   "A", "P", "I", " ", "k", "e", "y", " ",
                                   "m", "u", "s", "t", " ", "n", "o", "t",
                                   " ", "b", "e", " ", "e", "m", "p", "t",
                                   "y">>)
IsBaseURLError(e) == HasPrefix(e.text, S(<<"g", "e", "m", "i", "n", "i",
                                           ":", " ", "b", "a", "s", "e",
                                           " ", "U", "R", "L", " ", "m",
                                           "u", "s", "t", " ", "u", "s",
                                           "e", " ", "H", "T", "T", "P",
                                           "S">>))
IsValidationError(e) ==
    \/ HasPrefix(e.text, S(<<"g", "e", "m", "i", "n", "i", ":", " ", "m",
                             "a", "x", "T", "o", "k", "e", "n", "s", " ",
                             "m", "u", "s", "t", " ", "b", "e", " ", "p",
                             "o", "s", "i", "t", "i", "v", "e">>))
    \/ HasPrefix(e.text, S(<<"g", "e", "m", "i", "n", "i", ":", " ", "t",
                             "e", "m", "p", "e", "r", "a", "t", "u", "r",
                             "e", " ", "m", "u", "s", "t", " ", "b", "e",
                             " ", "n", "o", "n", "-", "n", "e", "g", "a",
                             "t", "i", "v", "e">>))
\* No caller's call has reached the executor.
NoExecutorCall == \A i \in Callers : calls[i].doCount = 0 /\ calls[i].req = None
\* New is returning from the call whose arguments newArgs holds.
NewReturns == newArgs # None /\ newArgs' = None
\* Generate, called by i, is running from its start.
GenerateRuns(i) == calls[i].pc = "called" /\ calls'[i].pc # "called"

(***************************************************************************)
(* Properties                                                              *)
(***************************************************************************)

\* C1: whenever New returns from a call whose API key is empty or all
\* white space, whatever the options, it returns an empty-key
\* configuration error and no Client, and no call has reached or reaches
\* the executor.
C1_BlankKeyFails ==
    [][(NewReturns /\ Blank(newArgs[1].apiKey)) =>
          /\ client' = None
          /\ newErr' # None
          /\ IsEmptyKeyError(newErr'[1])
          /\ NoExecutorCall
          /\ NoExecutorCall']_vars
\* New has returned the empty-key error and no Client.
C1_Witness ==
    /\ newArgs = None
    /\ client = None
    /\ newErr # None
    /\ IsEmptyKeyError(newErr[1])

\* C2: whenever New returns from a call whose key is not blank and whose
\* options leave a base URL that does not start with https://, it returns
\* a base-URL configuration error and no Client; and no Client ever has a
\* base URL that does not use HTTPS.
C2_NonHTTPSFails ==
    [][/\ (/\ NewReturns
           /\ ~Blank(newArgs[1].apiKey)
           /\ ~UsesHTTPS(Resolved(newArgs[1].opts, "baseURL", defaultBaseURL)))
          => (client' = None /\ newErr' # None /\ IsBaseURLError(newErr'[1]))
       /\ client' # None => UsesHTTPS(client'[1].baseURL)]_vars
\* New has returned the base-URL error and no Client.
C2_Witness ==
    /\ newArgs = None
    /\ client = None
    /\ newErr # None
    /\ IsBaseURLError(newErr[1])

\* C3: whenever Generate runs on options that resolve (the last of each
\* kind winning over the defaults 32000 and 1.0) to max tokens <= 0 or to
\* a temperature < 0, it returns a validation error and no Response, and
\* the call has not invoked the executor.
C3_InvalidParametersFail ==
    [][\A i \in Callers :
          (/\ GenerateRuns(i)
           /\ \/ Resolved(calls[i].args[1].opts, "maxTokens", 32000) <= 0
              \/ FloatNegative(Resolved(calls[i].args[1].opts, "temperature",
                                        Fin(10))))
          => /\ calls'[i].pc = "done"
             /\ calls'[i].resp = None
             /\ calls'[i].err # None
             /\ IsValidationError(calls'[i].err[1])
             /\ calls'[i].doCount = 0
             /\ calls'[i].reply = None]_vars
\* Generate has returned a validation error without invoking the executor.
C3_Witness ==
    \E i \in Callers :
        /\ calls[i].pc = "done"
        /\ calls[i].doCount = 0
        /\ calls[i].err # None
        /\ IsValidationError(calls[i].err[1])

\* The options of caller i's call pass Generate's validation.
PassesValidation(i) ==
    /\ Resolved(calls[i].args[1].opts, "maxTokens", 32000) > 0
    /\ ~FloatNegative(Resolved(calls[i].args[1].opts, "temperature", Fin(10)))
\* No ASCII control character.
NoControl(s) == \A j \in 1..Len(s) : s[j].c \notin {"\t", "\n", "\r", "\f"}
\* The request of caller i's call can be serialized (its temperature is a
\* finite number) and created (its URL has no control character).
Sendable(i) ==
    /\ Resolved(calls[i].args[1].opts, "temperature", Fin(10)).k = "fin"
    /\ NoControl(client[1].baseURL)
    /\ NoControl(client[1].model)

\* C4, as claimed: a call that passes validation has invoked the executor
\* exactly once when Generate stops running, and once still when the
\* executor has returned, whatever it returned.
C4_ExactlyOnce ==
    [][\A i \in Callers :
          /\ (GenerateRuns(i) /\ PassesValidation(i)) => calls'[i].doCount = 1
          /\ calls[i].pc = "inflight" => calls'[i].doCount = 1]_vars
\* C4, amended: no call invokes the executor more than once, and the
\* return of the executor, whatever it returns, ends the call with the
\* count still at one.  A call that passes validation invokes the executor
\* once if its request can be serialized and created and the Client's
\* executor is not nil; otherwise it ends, by an error or by the panic of
\* the nil executor, without an invocation.
C4_AtMostOnce ==
    [][\A i \in Callers :
          /\ calls'[i].doCount <= 1
          /\ calls[i].pc = "inflight" =>
                (calls'[i].pc = "done" /\ calls'[i].doCount = 1)
          /\ (GenerateRuns(i) /\ PassesValidation(i)) =>
                IF Sendable(i) /\ client[1].doer # NilDoer
                THEN calls'[i].pc = "inflight" /\ calls'[i].doCount = 1
                ELSE /\ calls'[i].doCount = 0
                     /\ IF Sendable(i) THEN calls'[i].pc = "panicked"
                        ELSE calls'[i].pc = "done" /\ calls'[i].err # None]_vars
\* A call has returned an error after its one invocation of the executor.
C4_Witness ==
    \E i \in Callers :
        /\ calls[i].pc = "done"
        /\ calls[i].doCount = 1
        /\ calls[i].reply # None
        /\ calls[i].err # None

\* u is a decoded Request with one content entry, of one part, whose text
\* is prompt.
OnePartOf(u, prompt) ==
    /\ u.ok
    /\ u.val.Contents = Slice(<<[Parts |-> Slice(<<[Text |-> prompt]>>)]>>)
\* u is a decoded Request with the default generation parameters.
DefaultsOf(u) ==
    /\ u.ok
    /\ u.val.GenerationConfig =
          [MaxOutputTokens |-> 32000, Temperature |-> Ptr(Fin(10))]
    /\ u.val.Tools = NilSlice

Answered(f) ==
    /\ f.pc = "done"
    /\ f.reply # None
    /\ f.reply[1].err = None
    /\ f.reply[1].failAt = None
\* The size ceiling, 10 MiB, and the length of an error-body excerpt.
Ceiling == 10485760
Excerpt == 1024
Marker == S(<<".", ".", ".", "(", "t", "r", "u", "n", "c", "a", "t", "e",
              "d", ")">>)
StatusHeader(status) == Cat(S(<<"g", "e", "m", "i", "n", "i", ":", " ",
                                "H", "T", "T", "P", " ">>), Cat(Itoa(status), S(<<":",
                                                                     " ">>)))
IsHTTPStatusError(e) == HasPrefix(e.text, S(<<"g", "e", "m", "i", "n", "i",
                                              ":", " ", "H", "T", "T", "P",
                                              " ">>))
IsSizeLimitError(e) ==
    e.text = S(<<"g", "e", "m", "i", "n", "i", ":", " ", "r", "e", "s",
                 "p", "o", "n", "s", "e", " ", "e", "x", "c", "e", "e",
                 "d", "s", " ", "1", "0", "4", "8", "5", "7", "6", "0",
                 " ", "b", "y", "t", "e", " ", "l", "i", "m", "i", "t">>)
IsDeserializationError(e) == HasPrefix(e.text, S(<<"g", "e", "m", "i", "n",
                                                   "i", ":", " ", "u", "n",
                                                   "m", "a", "r", "s", "h",
                                                   "a", "l", " ", "r", "e",
                                                   "s", "p", "o", "n", "s",
                                                   "e", ":", " ">>))
Failure(f, Is(_)) == f.resp = None /\ f.err # None /\ Is(f.err[1])

\* C6: whenever a call has returned after the executor returned a status
\* >= 400 with a body of at most 10 MiB, whatever the body is, the call
\* returned no Response and an HTTP-status error whose message contains
\* the status code.
C6_StatusError ==
    \A i \in Callers :
        (/\ Answered(calls[i])
         /\ calls[i].reply[1].status >= 400
         /\ BLen(calls[i].reply[1].body) <= Ceiling)
        => /\ Failure(calls[i], IsHTTPStatusError)
           /\ Contains(calls[i].err[1].text, Itoa(calls[i].reply[1].status))
\* A call has returned the status error for a 500 whose body is a
\* well-formed Response.
C6_Witness ==
    \E i \in Callers :
        /\ Answered(calls[i])
        /\ calls[i].reply[1].status = 500
        /\ calls[i].reply[1].body = BriefBody
        /\ Failure(calls[i], IsHTTPStatusError)
        /\ Contains(calls[i].err[1].text, S(<<"5", "0", "0">>))

\* The text e is the status header, the first 1024 bytes of body, and the
\* marker if and only if body is longer than that.
ExcerptOf(e, status, body) ==
    e.text = Cat(StatusHeader(status),
                 Cat(Take(body, Excerpt),
                     IF BLen(body) > Excerpt THEN Marker ELSE <<>>))
\* The longest HTTP-status error text for a status.
TextBound(status) == BLen(StatusHeader(status)) + Excerpt + BLen(Marker)

Oversized(r) ==
    /\ r.err = None
    /\ BLen(r.body) > Ceiling
    /\ r.failAt = None \/ r.failAt[1] > Ceiling

\* C8: no call ever holds more than 10 MiB + 1 bytes of a body; whenever a
\* call has returned after the executor returned a body of more than
\* 10 MiB, it returned the size-limit error and no Response and has not
\* run the decoder; and no call returns the size-limit error for a body
\* of exactly 10 MiB.
C8_SizeLimit ==
    \A i \in Callers :
        /\ calls[i].held <= Ceiling + 1
        /\ (calls[i].pc = "done" /\ calls[i].reply # None
              /\ Oversized(calls[i].reply[1]))
           => (Failure(calls[i], IsSizeLimitError) /\ ~calls[i].decoded)
        /\ (Answered(calls[i]) /\ BLen(calls[i].reply[1].body) = Ceiling)
           => ~Failure(calls[i], IsSizeLimitError)
\* A call has returned the size-limit error holding 10 MiB + 1 bytes and
\* without running the decoder.
C8_Witness ==
    \E i \in Callers :
        /\ calls[i].pc = "done"
        /\ calls[i].reply # None
        /\ Oversized(calls[i].reply[1])
        /\ Failure(calls[i], IsSizeLimitError)
        /\ calls[i].held = Ceiling + 1
        /\ ~calls[i].decoded

\* Frame f is of a call that returned Response resp and no error.
Success(f, resp) == f.err = None /\ f.resp = Some(resp)

\* C9, as claimed: whenever a call has returned after the executor
\* returned status 200 with a well-formed Response body, it returned no
\* error and the Response that the body carries.
C9_AnyBody ==
    \A i \in Callers : \A d \in Documents :
        (/\ Answered(calls[i])
         /\ calls[i].reply[1].status = 200
         /\ calls[i].reply[1].body = d.body)
        => Success(calls[i], d.resp)
\* C9, amended: whenever a call has returned after the executor returned
\* status 200 with a well-formed Response body of at most 10 MiB, it
\* returned no error and the Response that the body carries.
C9_BodyWithinCeiling ==
    \A i \in Callers : \A d \in Documents :
        (/\ Answered(calls[i])
         /\ calls[i].reply[1].status = 200
         /\ calls[i].reply[1].body = d.body
         /\ BLen(d.body) <= Ceiling)
        => Success(calls[i], d.resp)
\* A call has returned the Response of a body with a candidate of two
\* parts, safety ratings and token counts.
C9_Witness ==
    \E i \in Callers :
        /\ Answered(calls[i])
        /\ calls[i].reply[1].status = 200
        /\ calls[i].reply[1].body = Marshal(Response, FullResponse).data
        /\ Success(calls[i], FullResponse)

\* C10, as claimed: whenever a call has returned after the executor
\* returned a status below 400 with a body that is empty or is not
\* well-formed JSON, it returned a deserialization error and no Response.
C10_AnyBody ==
    \A i \in Callers :
        (/\ Answered(calls[i])
         /\ calls[i].reply[1].status < 400
         /\ calls[i].reply[1].body \in Malformed)
        => Failure(calls[i], IsDeserializationError)
\* C10, amended: whenever a call has returned after the executor returned
\* a status below 400 with a body of at most 10 MiB that is empty or is
\* not well-formed JSON, it returned a deserialization error and no
\* Response.
C10_BodyWithinCeiling ==
    \A i \in Callers :
        (/\ Answered(calls[i])
         /\ calls[i].reply[1].status < 400
         /\ calls[i].reply[1].body \in Malformed
         /\ BLen(calls[i].reply[1].body) <= Ceiling)
        => Failure(calls[i], IsDeserializationError)
\* A call has returned the deserialization error for a 200 with an empty
\* body.
C10_Witness ==
    \E i \in Callers :
        /\ Answered(calls[i])
        /\ calls[i].reply[1].status = 200
        /\ calls[i].reply[1].body = <<>>
        /\ Failure(calls[i], IsDeserializationError)

RECURSIVE CharsOfParts(_)
\* The characters of the texts of parts, one text after the other.
CharsOfParts(parts) ==
    IF parts = <<>> THEN <<>>
    ELSE Expand(parts[1].Text) \o CharsOfParts(Tail(parts))
\* r without its candidates after the first.
FirstOnly(r) ==
    IF Len(r.Candidates.e) <= 1 THEN r
    ELSE [r EXCEPT !.Candidates = Slice(<<r.Candidates.e[1]>>)]
\* t is what the claim says Text returns for r.
TextOf(r, t) ==
    /\ (r.Candidates.e = <<>> \/ r.Candidates.e[1].Content.Parts.e = <<>>)
          => t = <<>>
    /\ (r.Candidates.e # <<>> /\ r.Candidates.e[1].Content.Parts.e # <<>>)
          => Expand(t) = CharsOfParts(r.Candidates.e[1].Content.Parts.e)
    /\ t = Text(FirstOnly(r))

\* C11: what Text has returned for a Response is the empty string when
\* the Response has no candidates or its first candidate has no parts,
\* otherwise the characters of the texts of all parts of the first
\* candidate in order with nothing between them; and it is what Text
\* returns for the Response without its candidates after the first.
C11_Text == (response # None /\ text # None) => TextOf(response[1], text[1])
\* Text has returned "aba" for a Response of two candidates whose first
\* has the parts "a" and "ba".
C11_Witness ==
    /\ response # None
    /\ text = Some(S(<<"a", "b", "a">>))
    /\ Len(response[1].Candidates.e) = 2
    /\ Len(response[1].Candidates.e[1].Content.Parts.e) = 2
    /\ response[1].Candidates.e[2].Content.Parts.e # <<>>

\* C12: whenever New returns a Client, the Client's model, base URL and
\* executor are each what the last option that sets it gives, or, when no
\* option sets it, the default model, the default base URL and an
\* *http.Client with the default timeout; and its API key is the argument
\* of New as it was given.
C12_LastOptionWins ==
    [][(NewReturns /\ client' # None) =>
          /\ client'[1].model = Resolved(newArgs[1].opts, "model", defaultModel)
          /\ client'[1].baseURL =
                Resolved(newArgs[1].opts, "baseURL", defaultBaseURL)
          /\ client'[1].doer =
                Resolved(newArgs[1].opts, "doer", HTTPClient(defaultTimeout))
          /\ client'[1].apiKey = newArgs[1].apiKey]_vars
\* New has returned a Client whose key has spaces around it, whose model
\* and executor are set by options and whose base URL is the default.
C12_Witness ==
    /\ client # None
    /\ client[1].apiKey = S(<<" ", "Z", "q", " ">>)
    /\ client[1].model = S(<<"a", "/", "b">>)
    /\ client[1].doer = CallerDoer
    /\ client[1].baseURL = defaultBaseURL

\* The executor returns to goroutine i's call.
ExecutorReturns(i) == calls[i].pc = "inflight" /\ calls'[i].pc = "done"
IsTransportError(e) == HasPrefix(e.text, S(<<"g", "e", "m", "i", "n", "i",
                                             ":", " ", "d", "o", " ", "r",
                                             "e", "q", "u", "e", "s", "t",
                                             ":", " ">>))
\* Generate stops running with a request in the executor's hands that
\* carries the context the caller passed.
CarriesContext(i) ==
    (GenerateRuns(i) /\ calls'[i].pc = "inflight")
      => /\ calls[i].args[1].ctx # NilContext
         /\ calls'[i].req[1].ctx = calls[i].args[1].ctx

ReadersMoved(i) ==
    {k \in 1..Len(replays[i]) : replays'[i][k] # replays[i][k]}
      \cup (IF calls'[i].req[1].Body # calls[i].req[1].Body THEN {0} ELSE {})

\* C14: while the executor holds a request, every reader req.GetBody has
\* returned is over the bytes of the original request body; a reader
\* GetBody returns is a new one that has yielded nothing and that read to
\* its end yields exactly those bytes, however much of the original body
\* and of earlier replays has been read; and a step reads from one reader
\* at most, leaving every other reader, and the bytes of all, as they
\* were.
C14_ReplaySameBytes ==
    [][\A i \in DOMAIN calls :
          (calls[i].pc = "inflight" /\ calls'[i].pc = "inflight") =>
             /\ Len(replays'[i]) >= Len(replays[i])
             /\ \A k \in 1..Len(replays'[i]) :
                   /\ replays'[i][k].data = calls[i].req[1].Body.data
                   /\ k > Len(replays[i]) =>
                         /\ replays'[i][k].off = 0
                         /\ ReadAll(replays'[i][k]).bytes =
                               calls[i].req[1].Body.data
             /\ calls'[i].req[1].Body.data = calls[i].req[1].Body.data
             /\ Cardinality(ReadersMoved(i)) <= 1]_vars
\* The executor has read part of the original body and all of a first
\* replay, and holds a second replay it has not read from.
C14_Witness ==
    \E i \in DOMAIN calls :
        /\ calls[i].pc = "inflight"
        /\ calls[i].req[1].Body.off = 40
        /\ Len(replays[i]) = 2
        /\ replays[i][1].off = BLen(replays[i][1].data)
        /\ replays[i][2].off = 0

\* The characters of the message texts and numbers New and Generate
\* write into their errors themselves.
MessageChars ==
    {LowerCase[i] : i \in 1..26}
      \cup {"A", "C", "E", "G", "H", "I", "J", "L", "N", "O", "P", "R", "S",
            "T", "U", "0", "1", "2", "3", "4", "5", "6", "7", "8", "9", " ",
            ":", ",", ".", "-", "+", "/", "(", ")", "\"", "\\"}
\* A key with a character that none of these texts has.
Distinctive(key) == \E i \in 1..Len(key) : key[i].c \notin MessageChars
\* The error e of New(key, opts...) has the key in its text.
KeyInNewError(e, key) == Contains(e.text, key)
\* The error of the finished call f on Client c has the key in its text.
KeyInError(f, c) == f.err # None /\ Contains(f.err[1].text, c.apiKey)
\* The key is in what the executor returned to the finished call f: in
\* its error, or in the response body.
KeyInReply(f, c) ==
    /\ f.reply # None
    /\ \/ /\ f.reply[1].err # None
          /\ Contains(f.reply[1].err[1].text, c.apiKey)
       \/ /\ f.reply[1].err = None
          /\ Contains(f.reply[1].body, c.apiKey)
\* The key is in the URL the Client's base URL and model make.
KeyInURL(c) ==
    Contains(Cat(c.baseURL, Cat(S(<<"/">>), Cat(c.model, S(<<":", "g", "e", "n",
                                                        "e", "r", "a", "t",
                                                        "e", "C", "o", "n",
                                                        "t", "e", "n", "t">>)))),
             c.apiKey)

\* C15, as claimed: no error New or Generate returns has the API key in
\* its text.
C15_KeyNeverInError ==
    [][/\ (NewReturns /\ newErr' # None)
            => ~KeyInNewError(newErr'[1], newArgs[1].apiKey)
       /\ \A i \in DOMAIN calls :
            (client # None /\ calls'[i].pc = "done")
               => ~KeyInError(calls'[i], client[1])]_vars
\* C15, amended: an error of New has a distinctive API key in its text
\* only if the base URL the options give has it, and an error of
\* Generate only if the request URL has it, or the executor's error, or
\* the response body the executor returned.
C15_KeyOnlyFromInputs ==
    [][/\ (/\ NewReturns
           /\ newErr' # None
           /\ Distinctive(newArgs[1].apiKey)
           /\ KeyInNewError(newErr'[1], newArgs[1].apiKey))
            => Contains(Resolved(newArgs[1].opts, "baseURL", defaultBaseURL),
                        newArgs[1].apiKey)
       /\ \A i \in DOMAIN calls :
            (/\ client # None
             /\ calls'[i].pc = "done"
             /\ Distinctive(client[1].apiKey)
             /\ KeyInError(calls'[i], client[1]))
               => (KeyInURL(client[1]) \/ KeyInReply(calls'[i], client[1]))]_vars
\* A call on a Client with a distinctive key has returned an HTTP-status
\* error for a page that repeats the key, and the error has the key.
C15_Witness ==
    \E i \in DOMAIN calls :
        /\ client # None
        /\ Distinctive(client[1].apiKey)
        /\ calls[i].pc = "done"
        /\ calls[i].reply # None
        /\ calls[i].reply[1].body = EchoPage
        /\ KeyInError(calls[i], client[1])

\* u is a decoded Request made of the prompt and the options of args and
\* of nothing else: one part with the prompt, the generation parameters
\* the options give or else the defaults, the search tool if and only if
\* an option asks for it.
OwnRequest(u, args) ==
    /\ OnePartOf(u, args.prompt)
    /\ u.val.GenerationConfig =
          [MaxOutputTokens |-> Resolved(args.opts, "maxTokens", 32000),
           Temperature |-> Ptr(Resolved(args.opts, "temperature", Fin(10)))]
    /\ u.val.Tools = IF Resolved(args.opts, "googleSearch", FALSE)
                     THEN Slice(<<[GoogleSearch |-> Ptr(Zero(GoogleSearch))]>>)
                     ELSE NilSlice
\* What the finished call f returned is made of the reply the executor
\* gave to it: its error wrapped, or the excerpt of its status and body,
\* or the Response its body carries.
OwnResult(f) ==
    /\ f.reply # None
    /\ f.reply[1].err # None
          => (f.resp = None /\ f.err # None /\ f.err[1].cause = f.reply[1].err)
    /\ (Answered(f) /\ f.reply[1].status >= 400
          /\ BLen(f.reply[1].body) <= Ceiling)
          => /\ Failure(f, IsHTTPStatusError)
             /\ ExcerptOf(f.err[1], f.reply[1].status, f.reply[1].body)
    /\ (Answered(f) /\ f.reply[1].status < 400
          /\ BLen(f.reply[1].body) <= Ceiling
          /\ Unmarshal(Response, f.reply[1].body).ok)
          => Success(f, Unmarshal(Response, f.reply[1].body).val)

\* C16: under every interleaving of the calls of several goroutines on
\* one Client, whenever Generate hands a request to the executor the
\* request's body is made of the prompt and options of that very call;
\* whenever the executor returns to a call, what the call returns is made
\* of the reply the executor gave to it; and a step of one call leaves
\* the arguments, request, reply and result of every other call as they
\* were.
C16_OwnRequestOwnResult ==
    [][\A i \in DOMAIN calls :
          /\ (GenerateRuns(i) /\ calls'[i].pc = "inflight")
                => OwnRequest(Unmarshal(Request, calls'[i].req[1].Body.data),
                              calls[i].args[1])
          /\ ExecutorReturns(i) => OwnResult(calls'[i])
          /\ calls'[i] # calls[i]
                => \A j \in DOMAIN calls \ {i} : calls'[j] = calls[j]]_vars
\* The executor holds the requests of two goroutines at once: one of
\* prompt "A" with the default parameters, one of prompt "B" with 16
\* tokens and temperature 0.
C16_Witness ==
    /\ DOMAIN calls = Goroutines
    /\ calls[1].pc = "inflight"
    /\ calls[2].pc = "inflight"
    /\ OwnRequest(Unmarshal(Request, calls[1].req[1].Body.data),
                  [prompt |-> S(<<"A">>), opts |-> <<>>])
    /\ OwnRequest(Unmarshal(Request, calls[2].req[1].Body.data),
                  [prompt |-> S(<<"B">>),
                   opts |-> <<WithMaxTokens(16), WithTemperature(Fin(0))>>])

\* C17: once New has returned a Client, no step of any call of Generate,
\* whether the call ends in a Response, in an error or in the executor,
\* changes the Client's API key, model, base URL or executor.
C17_ClientUnchanged ==
    [][client # None =>
          /\ client' # None
          /\ client'[1].apiKey = client[1].apiKey
          /\ client'[1].model = client[1].model
          /\ client'[1].baseURL = client[1].baseURL
          /\ client'[1].doer = client[1].doer]_vars
\* A call on a Client with a key of its own, model "a/b" and the caller's
\* executor has returned an HTTP-status error for a 401, and the Client is
\* as New made it.
C17_Witness ==
    \E i \in DOMAIN calls :
        /\ client # None
        /\ client[1].apiKey = S(<<" ", "Z", "q", " ">>)
        /\ client[1].model = S(<<"a", "/", "b">>)
        /\ client[1].baseURL = defaultBaseURL
        /\ client[1].doer = CallerDoer
        /\ Answered(calls[i])
        /\ calls[i].reply[1].status = 401
        /\ Failure(calls[i], IsHTTPStatusError)

\* The text <baseURL>/<model>:generateContent for Client c.
Endpoint(c) ==
    Cat(c.baseURL, Cat(S(<<"/">>), Cat(c.model, S(<<":", "g", "e", "n", "e",
                                               "r", "a", "t", "e", "C",
                                               "o", "n", "t", "e", "n",
                                               "t">>))))
\* s has only characters that a URL path holds as they are: letters,
\* digits and - _ . ~ $ & + , / : ; = @ ! ' ( ) * [ ].
PlainPath(s) == \A j \in 1..Len(s) : s[j].c \in PathValid
\* The characters of base URL b between https:// and the first slash
\* after it.
HostOf(cs) == Before(cs, IndexOf(cs, "/"))
\* b is https:// and a host name of letters, digits, - and . with, if
\* anything, a path of such characters after it.
PlainBase(b) ==
    /\ UsesHTTPS(b)
    /\ PlainPath(b)
    /\ \A ch \in {HostOf(SubSeq(Expand(b), 9, BLen(b)))[j] :
                     j \in 1..Len(HostOf(SubSeq(Expand(b), 9, BLen(b))))} :
          ch \in (PathSafe \ {"_", "~", "$", "&", "+", ",", "/", ":", ";",
                              "=", "@"})
\* The request req is a POST with the JSON content type and the key of
\* Client c in the API-key header.
PostWithKey(req, c) ==
    /\ req.Method = "POST"
    /\ req.Header["Content-Type"] = S(<<"a", "p", "p", "l", "i", "c", "a",
                                        "t", "i", "o", "n", "/", "j", "s",
                                        "o", "n">>)
    /\ req.Header["x-goog-api-key"] = c.apiKey

\* C18, as claimed: whenever Generate hands a request to the executor, the
\* request is a POST whose URL reads exactly
\* <baseURL>/<model>:generateContent, with the JSON content type and the
\* Client's key in the API-key header.
C18_ExactURL ==
    [][\A i \in DOMAIN calls :
          (GenerateRuns(i) /\ calls'[i].pc = "inflight")
          => /\ PostWithKey(calls'[i].req[1], client[1])
             /\ URLString(calls'[i].req[1].URL) = Endpoint(client[1])]_vars
\* C18, amended: whenever Generate hands a request to the executor, the
\* request is a POST with the JSON content type and the Client's key in
\* the API-key header; its URL reads exactly
\* <baseURL>/<model>:generateContent, an empty model and a model with
\* slashes included, when the base URL is https:// and a host name with,
\* if anything, a path after it, and path and model have only characters
\* that a URL path holds as they are.
C18_URLOfPlainModel ==
    [][\A i \in DOMAIN calls :
          (GenerateRuns(i) /\ calls'[i].pc = "inflight")
          => /\ PostWithKey(calls'[i].req[1], client[1])
             /\ (PlainBase(client[1].baseURL) /\ PlainPath(client[1].model))
                   => URLString(calls'[i].req[1].URL) = Endpoint(client[1])]_vars
\* The executor holds the request of a Client with an empty model and a
\* key with spaces around it: a POST to <baseURL>/:generateContent with
\* the key as it was given.
C18_Witness ==
    \E i \in DOMAIN calls :
        /\ client # None
        /\ client[1].model = <<>>
        /\ client[1].apiKey = S(<<" ", "Z", "q", " ">>)
        /\ calls[i].pc = "inflight"
        /\ PostWithKey(calls[i].req[1], client[1])
        /\ URLString(calls[i].req[1].URL) =
              Cat(defaultBaseURL, S(<<"/", ":", "g", "e", "n", "e", "r",
                                      "a", "t", "e", "C", "o", "n", "t",
                                      "e", "n", "t">>))

\* The JSON value j is an object with a member of key k; that member's
\* value.
HasMember(j, k) == j.t = "obj" /\ \E n \in 1..Len(j.kv) : j.kv[n].k = k
MemberValue(j, k) == j.kv[CHOOSE n \in 1..Len(j.kv) : j.kv[n].k = k].v
\* The JSON text data is an object whose generationConfig is an object
\* with a temperature member that is a number.
HasTemperature(p) ==
    /\ p.ok
    /\ HasMember(p.v, kGenerationConfig)
    /\ HasMember(MemberValue(p.v, kGenerationConfig), kTemperature)
    /\ MemberValue(MemberValue(p.v, kGenerationConfig), kTemperature).t = "num"
\* The number that member is, as it is written.
TemperatureWritten(p) ==
    MemberValue(MemberValue(p.v, kGenerationConfig), kTemperature).lit

\* C19: a call of Generate whose options give temperature 0 and a positive
\* maxTokens does not end in a validation error; whenever Generate hands a
\* request to the executor, the JSON of the request's body has the
\* temperature member in its generationConfig; and when the options give
\* temperature 0 that member is written, as the number 0.
C19_ZeroTemperatureSent ==
    [][\A i \in DOMAIN calls :
          /\ (/\ GenerateRuns(i)
              /\ Resolved(calls[i].args[1].opts, "temperature", Fin(10)) = Fin(0)
              /\ Resolved(calls[i].args[1].opts, "maxTokens", 32000) > 0)
             => ~(/\ calls'[i].pc = "done"
                  /\ calls'[i].err # None
                  /\ IsValidationError(calls'[i].err[1]))
          /\ (GenerateRuns(i) /\ calls'[i].pc = "inflight")
             => /\ HasTemperature(ParseDocument(calls'[i].req[1].Body.data))
                /\ Resolved(calls[i].args[1].opts, "temperature", Fin(10)) = Fin(0)
                     => /\ TemperatureWritten(
                              ParseDocument(calls'[i].req[1].Body.data))
                              = S(<<"0">>)
                        /\ Contains(calls'[i].req[1].Body.data,
                                    S(<<"\"", "t", "e", "m", "p", "e", "r",
                                        "a", "t", "u", "r", "e", "\"", ":",
                                        "0">>))]_vars
\* The executor holds a request whose body has "temperature":0 beside 16
\* tokens.
C19_Witness ==
    \E i \in DOMAIN calls :
        /\ calls[i].pc = "inflight"
        /\ HasTemperature(ParseDocument(calls[i].req[1].Body.data))
        /\ TemperatureWritten(ParseDocument(calls[i].req[1].Body.data))
              = S(<<"0">>)
        /\ Contains(calls[i].req[1].Body.data,
                    S(<<"\"", "m", "a", "x", "O", "u", "t", "p", "u", "t",
                        "T", "o", "k", "e", "n", "s", "\"", ":", "1", "6",
                        ",", "\"", "t", "e", "m", "p", "e", "r", "a", "t",
                        "u", "r", "e", "\"", ":", "0", "}">>))

\* The generation parameters of Request r are valid: maxOutputTokens is
\* positive and the temperature is present and not below zero.
ValidParameters(r) ==
    /\ r.GenerationConfig.MaxOutputTokens > 0
    /\ r.GenerationConfig.Temperature # NilPtr
    /\ r.GenerationConfig.Temperature[1].k # "nan"
    /\ ~FloatNegative(r.GenerationConfig.Temperature[1])
\* json.Marshal has returned the bytes of the Request, and what
\* json.Unmarshal has made of them is the Request.
RoundTrips ==
    /\ jsonData # None => jsonData[1].ok
    /\ restored # None => (restored[1].ok /\ restored[1].val = request[1])

\* C20, as claimed: for every Request with valid generation parameters,
\* with or without the search tool, json.Marshal returns bytes and
\* json.Unmarshal of them returns a Request equal to the original.
C20_RoundTrip ==
    (request # None /\ ValidParameters(request[1])) => RoundTrips
\* C20, amended: for every Request with valid generation parameters whose
\* temperature is finite and whose tool list is nil or not empty,
\* json.Marshal returns bytes and json.Unmarshal of them returns a
\* Request equal to the original; for a temperature of 0 the bytes have
\* the temperature member.
C20_RoundTripFinite ==
    (/\ request # None
     /\ ValidParameters(request[1])
     /\ request[1].GenerationConfig.Temperature[1].k = "fin"
     /\ (request[1].Tools.nil \/ request[1].Tools.e # <<>>))
    => /\ RoundTrips
       /\ (jsonData # None
             /\ request[1].GenerationConfig.Temperature = Ptr(Fin(0)))
            => Contains(jsonData[1].data, S(<<"\"", "t", "e", "m", "p",
                                              "e", "r", "a", "t", "u", "r",
                                              "e", "\"", ":", "0">>))
\* A Request with 16 tokens, temperature 0 and the search tool has come
\* back equal from bytes that have "temperature":0.
C20_Witness ==
    /\ request # None
    /\ request[1].GenerationConfig =
          [MaxOutputTokens |-> 16, Temperature |-> Ptr(Fin(0))]
    /\ request[1].Tools = Slice(<<[GoogleSearch |-> Ptr(Zero(GoogleSearch))]>>)
    /\ request[1].Contents.e # <<>>
    /\ jsonData # None
    /\ Contains(jsonData[1].data, S(<<"\"", "t", "e", "m", "p", "e", "r",
                                      "a", "t", "u", "r", "e", "\"", ":",
                                      "0">>))
    /\ restored # None
    /\ restored[1].ok
    /\ restored[1].val = request[1]

\* An option of opts asks for the search tool.
SearchSupplied(opts) == \E k \in 1..Len(opts) : opts[k].set = "googleSearch"
\* The JSON document p is an object whose tools member is a list of
\* exactly one tool, which has the googleSearch member.
OneSearchTool(p) ==
    /\ p.ok
    /\ HasMember(p.v, kTools)
    /\ MemberValue(p.v, kTools).t = "arr"
    /\ Len(MemberValue(p.v, kTools).e) = 1
    /\ HasMember(MemberValue(p.v, kTools).e[1], kGoogleSearch)
\* The JSON document p is an object without a tools member.
NoTools(p) == p.ok /\ p.v.t = "obj" /\ ~HasMember(p.v, kTools)

\* C21: whenever Generate hands a request to the executor, the JSON of the
\* request's body has a tools list of exactly one tool, the search tool,
\* when an option of the call asks for search, and has no tools member
\* when none does; decoded, the Request has one tool with GoogleSearch
\* set, or no tools.
C21_SearchToolIffSupplied ==
    [][\A i \in DOMAIN calls :
          (GenerateRuns(i) /\ calls'[i].pc = "inflight")
          => IF SearchSupplied(calls[i].args[1].opts)
             THEN /\ OneSearchTool(ParseDocument(calls'[i].req[1].Body.data))
                  /\ Unmarshal(Request, calls'[i].req[1].Body.data).val.Tools
                       = Slice(<<[GoogleSearch |-> Ptr(Zero(GoogleSearch))]>>)
             ELSE /\ NoTools(ParseDocument(calls'[i].req[1].Body.data))
                  /\ Unmarshal(Request, calls'[i].req[1].Body.data).val.Tools
                       = NilSlice]_vars
\* The executor holds a request whose body has the one search tool beside
\* 16 tokens.
C21_Witness ==
    \E i \in DOMAIN calls :
        /\ calls[i].pc = "inflight"
        /\ OneSearchTool(ParseDocument(calls[i].req[1].Body.data))
        /\ Contains(calls[i].req[1].Body.data, S(<<"\"", "m", "a", "x",
                                                   "O", "u", "t", "p", "u",
                                                   "t", "T", "o", "k", "e",
                                                   "n", "s", "\"", ":",
                                                   "1", "6", ",">>))
        /\ Contains(calls[i].req[1].Body.data, S(<<"\"", "t", "o", "o",
                                                   "l", "s", "\"", ":",
                                                   "[", "{", "\"", "g",
                                                   "o", "o", "g", "l", "e",
                                                   "S", "e", "a", "r", "c",
                                                   "h", "\"", ":", "{",
                                                   "}", "}", "]">>))

\* C22: whenever a call has returned after the executor returned an error,
\* with or without a response beside it, the call returned no Response
\* and an error whose chain has the executor's error and whose text has
\* the executor's error text, and it has read nothing of a response body
\* and has not run the decoder.
C22_ExecutorErrorWrapped ==
    \A i \in DOMAIN calls :
        (calls[i].pc = "done" /\ calls[i].reply # None
           /\ calls[i].reply[1].err # None)
        => /\ calls[i].resp = None
           /\ calls[i].err # None
           /\ calls[i].err[1] # calls[i].reply[1].err[1]
           /\ ErrorsIs(calls[i].err[1], calls[i].reply[1].err[1])
           /\ Contains(calls[i].err[1].text, calls[i].reply[1].err[1].text)
           /\ calls[i].held = 0
           /\ ~calls[i].decoded
\* A call has returned the wrapped error of an executor that returned a
\* response with a body beside its error.
C22_Witness ==
    \E i \in DOMAIN calls :
        /\ calls[i].pc = "done"
        /\ calls[i].reply # None
        /\ calls[i].reply[1].err = Some(ErrRedirect)
        /\ calls[i].reply[1].body = BriefBody
        /\ calls[i].resp = None
        /\ calls[i].err # None
        /\ calls[i].err[1].cause = Some(ErrRedirect)
        /\ Contains(calls[i].err[1].text, S(<<"s", "t", "o", "p", "p", "e",
                                              "d", " ", "a", "f", "t", "e",
                                              "r", " ", "1", "0", " ", "r",
                                              "e", "d", "i", "r", "e", "c",
                                              "t", "s">>))
        /\ calls[i].held = 0

(***************************************************************************)
(* C23-C26: the command-line program                                       *)
(***************************************************************************)

\* The run has ended.
Exited == cli # None /\ cli[1].pc = "exited"
\* main has written the usage line to standard error.
UsagePrinted ==
    \E k \in 1..Len(cli[1].stderr) :
        cli[1].stderr[k] = Line("fmt", Cat(usage, S(<<"\n">>)))
\* No Client was made and the executor was never called.
NoNetworkCall == client = None /\ calls[1].doCount = 0 /\ cli[1].attempt = 0

\* C23: whenever a run of the CLI that was given no prompt argument has
\* ended, whatever its environment, it has written the usage message to
\* standard error, its exit status is not zero, and it has made no network
\* call.
C23_UsageWithoutPrompt ==
    (Exited /\ cli[1].args = <<>>)
        => /\ UsagePrinted
           /\ cli[1].exit # Some(0)
           /\ NoNetworkCall

\* The run was given a prompt.
HasPrompt == cli # None /\ cli[1].args # <<>>
\* The configuration of the run loads.
ConfigLoads == MustLoad(cli[1].env).ok
\* The last thing written to standard error is main's report of err.
ErrorReported(err) ==
    /\ cli[1].stderr # <<>>
    /\ cli[1].stderr[Len(cli[1].stderr)] = ErrorLine(err)
    /\ Contains(cli[1].stderr[Len(cli[1].stderr)].text, err.text)
\* Generate returned a Response; standard output holds it as indented JSON,
\* which reads back as that Response; the exit status is 0.
SucceededAndPrinted ==
    /\ newErr = None
    /\ calls[1].pc = "done"
    /\ calls[1].err = None
    /\ calls[1].resp # None
    /\ HasPrefix(cli[1].stdout, Cat(S(<<"{", "\n">>), S(<<" ", " ", "\"",
                                                          "c", "a", "n",
                                                          "d", "i", "d",
                                                          "a", "t", "e",
                                                          "s", "\"", ":",
                                                          " ">>)))
    /\ Unmarshal(Response, cli[1].stdout).ok
    /\ Unmarshal(Response, cli[1].stdout).val = calls[1].resp[1]
    /\ cli[1].exit = Some(0)
\* New or Generate returned an error; it is reported on standard error,
\* standard output is empty and the exit status is not 0.
FailedAndReported ==
    /\ \/ newErr # None /\ calls[1].pc = "idle" /\ ErrorReported(newErr[1])
       \/ /\ newErr = None
          /\ calls[1].pc = "done"
          /\ calls[1].err # None
          /\ ErrorReported(calls[1].err[1])
    /\ cli[1].stdout = <<>>
    /\ cli[1].exit \notin {None, Some(0)}

KeyMissing ==
    cli[1].env.GEMINI_API_KEY = None \/ cli[1].env.GEMINI_API_KEY = Some(<<>>)
\* The process was ended by a panic that names the variable.
PanickedLoading ==
    /\ cli[1].stderr = <<Line("panic", nameAPIKey)>>
    /\ cli[1].exit = Some(2)

\* C25: a run of the CLI whose GEMINI_API_KEY is unset or empty, once main
\* has run, has ended in the panic of the configuration loading, with no
\* Client constructed, no call of Generate and no call of the executor.
C25_MissingKeyPanics ==
    (cli # None /\ cli[1].pc # "start" /\ KeyMissing)
        => /\ Exited
           /\ PanickedLoading
           /\ NoNetworkCall
           /\ newErr = None
           /\ calls[1].pc = "idle"
           /\ cli[1].stdout = <<>>

\* A run with a prompt and the key set to the empty string has panicked.
C25_Witness ==
    /\ Exited
    /\ HasPrompt
    /\ cli[1].env.GEMINI_API_KEY = Some(<<>>)
    /\ PanickedLoading

\* C26: for every configured per-attempt timeout, the deadline of the call
\* (5 times the timeout) never cancels the call: the 4 attempts of the
\* retry layer, each within the timeout, and the gaps between them are over
\* before it.
C26_DeadlineSuffices == cli # None => ~cli[1].expired

(***************************************************************************)
(* C27-C30: the order of the checks, the statuses, the executor, the pair  *)
(***************************************************************************)

\* C27: whenever a call has returned after the executor returned a body of
\* more than 10 MiB together with a status of 400 or more, it returned the
\* size-limit error and not the HTTP-status error, the decoder has not run,
\* and the error text is the fixed size-limit message: it holds neither the
\* status line nor the excerpt of the body that an HTTP-status error would.
C27_SizeBeforeStatus ==
    \A i \in DOMAIN calls :
        (/\ calls[i].pc = "done"
         /\ calls[i].reply # None
         /\ Oversized(calls[i].reply[1])
         /\ calls[i].reply[1].status >= 400)
        => /\ Failure(calls[i], IsSizeLimitError)
           /\ ~IsHTTPStatusError(calls[i].err[1])
           /\ calls[i].err[1] = ErrTooLarge
           /\ ~Contains(calls[i].err[1].text,
                        StatusHeader(calls[i].reply[1].status))
           /\ ~Contains(calls[i].err[1].text,
                        Take(calls[i].reply[1].body, Excerpt))
           /\ ~calls[i].decoded
\* A call has returned the size-limit error for a status 500 with a body of
\* 10 MiB + 1 bytes that begins with a Response.
C27_Witness ==
    \E i \in DOMAIN calls :
        /\ calls[i].pc = "done"
        /\ calls[i].reply # None
        /\ calls[i].reply[1].status = 500
        /\ calls[i].reply[1].body = PadTo(BriefBody, maxResponseBytes + 1)
        /\ Oversized(calls[i].reply[1])
        /\ Failure(calls[i], IsSizeLimitError)

\* The executor returned a response with a status below 400 to call i,
\* which has returned.
BelowFourHundred(i) ==
    /\ calls[i].pc = "done"
    /\ calls[i].reply # None
    /\ calls[i].reply[1].err = None
    /\ calls[i].reply[1].status < 400
\* The call returned what json.Unmarshal makes of the body: the Response,
\* or the deserialization error.
DecidedByBody(i) ==
    IF Unmarshal(Response, calls[i].reply[1].body).ok
    THEN Success(calls[i], Unmarshal(Response, calls[i].reply[1].body).val)
    ELSE Failure(calls[i], IsDeserializationError)
\* The call returned no HTTP-status error.
NoStatusError(i) == calls[i].err = None \/ ~IsHTTPStatusError(calls[i].err[1])

\* C28, as claimed: whenever a call has returned after the executor
\* returned a status below 400, it returned no HTTP-status error, and it
\* returned the Response if the body deserializes and the deserialization
\* error if it does not.
C28_OnlyTheBody ==
    \A i \in DOMAIN calls :
        BelowFourHundred(i) => (NoStatusError(i) /\ DecidedByBody(i))

\* C28: whenever a call has returned after the executor returned a status
\* below 400, it returned no HTTP-status error; and if the body was read
\* to its end and is of at most 10 MiB, it returned the Response if the
\* body deserializes and the deserialization error if it does not.
C28_BodyWithinLimit ==
    \A i \in DOMAIN calls :
        BelowFourHundred(i)
        => /\ NoStatusError(i)
           /\ (calls[i].reply[1].failAt = None
                  /\ BLen(calls[i].reply[1].body) <= Ceiling)
              => DecidedByBody(i)
\* Calls have returned the Response of a body that came with status 301.
C28_Witness ==
    \E i \in DOMAIN calls :
        /\ BelowFourHundred(i)
        /\ calls[i].reply[1].status = 301
        /\ calls[i].reply[1].body = BriefBody
        /\ Success(calls[i], BriefResponse)

\* C29: the Client a successful New returned has an executor that is not
\* nil, whatever the options were, and no call of Generate has ended in the
\* dereference of a nil executor.
C29_ExecutorNeverNil ==
    /\ client # None => client[1].doer # NilDoer
    /\ \A i \in DOMAIN calls : calls[i].pc # "panicked"

\* C30: whenever a call of Generate has returned, on whichever path, it
\* has returned either a Response and no error, or an error and no
\* Response.
C30_ResponseOrError ==
    \A i \in DOMAIN calls :
        calls[i].pc = "done" => ((calls[i].resp = None) # (calls[i].err = None))
\* A call has returned the deserialization error and no Response.
C30_Witness ==
    \E i \in DOMAIN calls :
        /\ calls[i].pc = "done"
        /\ calls[i].decoded
        /\ calls[i].resp = None
        /\ calls[i].err # None
        /\ IsDeserializationError(calls[i].err[1])

====
